---- MODULE Spec2Model ----
(***************************************************************************)
(* Model of the uwatch2 BLE client (src/_uwatch2ble.py, class Uwatch2Ble): *)
(* packet framing and chunked writes, the notification queue fed by the    *)
(* pygatt callbacks, the reassembly of async responses and the blocking    *)
(* _get_response loop.                                                     *)
(*                                                                         *)
(* Python values: None is the empty tuple <<>> and a present value v is    *)
(* <<v>>; bytes and bytearray objects are sequences of integers 0..255.    *)
(* A call's result is a record [err, ...]: err = "" is a normal return,    *)
(* otherwise err names the exception class that propagates.                *)
(***************************************************************************)
EXTENDS Integers, Sequences, FiniteSets, TLC

VARIABLES
    byteorder,                      \* sys.byteorder of the interpreter that runs the
                                    \* client: the order of struct's native layouts
    _auto_reconnect,                \* self._auto_reconnect
    _is_connected,                  \* self._is_connected
    _queue,                         \* self._queue (multiprocessing queue, FIFO)
    _acc_payload_bytes,             \* self._acc_payload_bytes
    _expected_payload_byte_count,   \* self._expected_payload_byte_count
    pc,                             \* where the caller of the client is
    cmd_key,                        \* cmd_key of the current/last _get_response
    unpack_str,                     \* unpack_str of the current/last _get_response
    acc_payload_bytes,              \* local of _get_response: what the last
                                    \* _handle_async_response call returned
    payload_bytes,                  \* argument of the current/last _send_packet
    pkg_bytes,                      \* pkg_bytes built by the last _send_packet
    written,                        \* chunks handed to char_write by the last call
    reconnected,                    \* whether the last _send_packet called
                                    \* self._adapter.reconnect
    outcome,                        \* how the last call ended
    calls,                          \* concurrent callers: where each thread is
    wire,                           \* concurrent callers: the char_write calls the
                                    \* transport got, in order, with their thread
    call,                           \* the current/last call made by the user of the
                                    \* client: its name and its arguments
    sent,                           \* the payloads that call handed to _send_packet,
                                    \* in order
    watch,                          \* the settings the watch holds: for the key of
                                    \* a set command, the argument bytes it got
    msg_bytes                       \* local of send_message while its loop runs:
                                    \* the bytes still to send

vars == <<byteorder, _auto_reconnect, _is_connected, _queue, _acc_payload_bytes,
          _expected_payload_byte_count, pc, cmd_key, unpack_str, acc_payload_bytes,
          payload_bytes, pkg_bytes, written, reconnected, outcome, calls, wire,
          call, sent, watch, msg_bytes>>

reassembler == <<_acc_payload_bytes, _expected_payload_byte_count>>
send_vars == <<payload_bytes, pkg_bytes, written, reconnected>>
query_vars == <<cmd_key, unpack_str, acc_payload_bytes>>
conc_vars == <<calls, wire>>
lib_vars == <<call, sent, watch, msg_bytes>>

----------------------------------------------------------------------------
(* Bounds of the model *)

\* longest argument string handed to _send_packet in the framing runs
MaxArgLen == 252
\* most events waiting in the queue
MaxQueue == 2
\* most bytes the environment lets the accumulator grow to
MaxAcc == 5

----------------------------------------------------------------------------
(* Python and struct helpers *)

None == <<>>

Some(v) == <<v>>

Min(a, b) == IF a < b THEN a ELSE b

\* b[i:] for a 0-based Python index i >= 0
SliceFrom(b, i) == SubSeq(b, i + 1, Len(b))

\* b[:j] for a 0-based Python index j >= 0
SliceTo(b, j) == SubSeq(b, 1, Min(j, Len(b)))

\* b[i:j]
Slice(b, i, j) == SubSeq(b, i + 1, Min(j, Len(b)))

HexDigits == <<"0", "1", "2", "3", "4", "5", "6", "7", "8", "9",
               "a", "b", "c", "d", "e", "f">>

HexVal(c) == CHOOSE v \in 0..15 : HexDigits[v + 1] = c

IsHex(c) == \E v \in 0..15 : HexDigits[v + 1] = c

RECURSIVE unhexlify(_)
unhexlify(s) ==
    IF Len(s) = 0 THEN [err |-> "", bytes |-> <<>>]
    ELSE IF Len(s) = 1 \/ ~IsHex(s[1]) \/ ~IsHex(s[2])
    THEN [err |-> "ValueError", bytes |-> <<>>]
    ELSE LET rest == unhexlify(SubSeq(s, 3, Len(s)))
         IN  IF rest.err # "" THEN rest
             ELSE [err |-> "", bytes |-> <<16 * HexVal(s[1]) + HexVal(s[2])>> \o rest.bytes]

\* hex_str.replace(" ", "")
RemoveSpaces(s) == SelectSeq(s, LAMBDA c : c # " ")

_get_bytes(hex_str) ==
    LET r == unhexlify(RemoveSpaces(hex_str))
    IN  IF r.err = "ValueError"
        THEN [err |-> "WatchError: Invalid hex bytes", bytes |-> <<>>]
        ELSE r

\* the literal "fe ea 10"
MagicHex == <<"f", "e", " ", "e", "a", " ", "1", "0">>

\* self._get_bytes("fe ea 10")
Magic == _get_bytes(MagicHex).bytes

\* struct.pack("B", n)
struct_pack_B(n) ==
    IF n \in 0..255 THEN [err |-> "", bytes |-> <<n>>]
    ELSE [err |-> "struct.error", bytes |-> <<>>]

\* struct.unpack("B", b)
struct_unpack_B(b) ==
    IF Len(b) = 1 THEN [err |-> "", val |-> b[1]]
    ELSE [err |-> "struct.error", val |-> 0]

----------------------------------------------------------------------------
(* Framing and chunking *)

\* a header whose length byte counts the payload bytes only
gen_header_payload_count(payload) ==
    LET n == struct_pack_B(Len(payload))
    IN  IF n.err # "" THEN n
        ELSE [err |-> "", bytes |-> Magic \o n.bytes]

_gen_header(payload) ==
    LET n == struct_pack_B(Len(payload) + 4)
    IN  IF n.err # "" THEN n
        ELSE [err |-> "", bytes |-> Magic \o n.bytes]

\* buf.read(20)
ChunkSize == 20

\* a write loop that stops at the first chunk shorter than 20 bytes
RECURSIVE read_chunks_full_only(_)
read_chunks_full_only(buf) ==
    LET chunk == SliceTo(buf, ChunkSize)
    IN  IF Len(chunk) < ChunkSize THEN <<>>
        ELSE <<chunk>> \o read_chunks_full_only(SliceFrom(buf, ChunkSize))

\* the chunks the write loop of _send_packet reads from io.BytesIO(pkg_bytes)
RECURSIVE read_chunks(_)
read_chunks(buf) ==
    LET chunk == SliceTo(buf, ChunkSize)
    IN  IF Len(chunk) = 0 THEN <<>>
        ELSE <<chunk>> \o read_chunks(SliceFrom(buf, ChunkSize))

_reconnect(auto) == [is_connected |-> TRUE, adapter_called |-> ~auto]

\* a _send_packet that reconnects before it builds the header
send_packet_reconnect_first(payload, connected, auto, fail) ==
    LET header == _gen_header(payload)
        pkg == header.bytes \o payload
        chunks == read_chunks(pkg)
        conn == IF ~connected THEN _reconnect(auto).is_connected ELSE connected
        adapter == ~connected /\ _reconnect(auto).adapter_called
    IN  IF header.err # ""
        THEN [err |-> header.err, pkg |-> <<>>, written |-> <<>>, is_connected |-> conn,
              reconnected |-> adapter]
        ELSE IF fail \in 1..Len(chunks)
        THEN [err |-> "BLEError", pkg |-> pkg, written |-> SubSeq(chunks, 1, fail),
              is_connected |-> conn, reconnected |-> adapter]
        ELSE [err |-> "", pkg |-> pkg, written |-> chunks, is_connected |-> conn,
              reconnected |-> adapter]

\* a _send_packet that writes a chunk again when its write raises, and goes on
send_packet_retry(payload, connected, auto, fail) ==
    LET header == _gen_header(payload)
        pkg == header.bytes \o payload
        chunks == read_chunks(pkg)
        conn == IF ~connected THEN _reconnect(auto).is_connected ELSE connected
        adapter == ~connected /\ _reconnect(auto).adapter_called
    IN  IF header.err # ""
        THEN [err |-> header.err, pkg |-> <<>>, written |-> <<>>, is_connected |-> connected,
              reconnected |-> FALSE]
        ELSE IF fail \in 1..Len(chunks)
        THEN [err |-> "", pkg |-> pkg,
              written |-> SubSeq(chunks, 1, fail) \o SubSeq(chunks, fail, Len(chunks)),
              is_connected |-> conn, reconnected |-> adapter]
        ELSE [err |-> "", pkg |-> pkg, written |-> chunks, is_connected |-> conn,
              reconnected |-> adapter]

\* _send_packet(payload): fail = 0 when char_write accepts every chunk, else
\* the 1-based position of the write that raises.
send_packet(payload, connected, auto, fail) ==
    LET header == _gen_header(payload)
        pkg == header.bytes \o payload
        chunks == read_chunks(pkg)
        conn == IF ~connected THEN _reconnect(auto).is_connected ELSE connected
        adapter == ~connected /\ _reconnect(auto).adapter_called
    IN  IF header.err # ""
        THEN [err |-> header.err, pkg |-> <<>>, written |-> <<>>, is_connected |-> connected,
              reconnected |-> FALSE]
        ELSE IF fail \in 1..Len(chunks)
        THEN [err |-> "BLEError", pkg |-> pkg, written |-> SubSeq(chunks, 1, fail),
              is_connected |-> conn, reconnected |-> adapter]
        ELSE [err |-> "", pkg |-> pkg, written |-> chunks, is_connected |-> conn,
              reconnected |-> adapter]

\* the ways the writes of a packet can go: all accepted (0) or the i-th raises
WriteFailures(payload) ==
    LET header == _gen_header(payload)
    IN  IF header.err # "" THEN {0}
        ELSE 0..Len(read_chunks(header.bytes \o payload))

----------------------------------------------------------------------------
(* Results of calls *)

\* the WatchError exceptions, by the message each is raised with
E_HEADER == "WatchError: Expected bytes to start with new header"

E_OVERRUN == "WatchError: Received more bytes than expected"

E_UNPACK == "WatchError: Unable to unpack value bytes in payload"

E_NOTIFICATION == "WatchError: Received unknown notification"

E_MSG_TYPE == "WatchError: Unknown callback message type"

E_HEX == "WatchError: Invalid hex bytes"

E_INTS == "WatchError: Arguments must be ints or decimal numbers"

E_FORMAT == "WatchError: Arguments do not match required format"

E_ALARM_IDX == "WatchError: alarm_idx must be 0, 1 or 2"

E_HOUR == "WatchError: hour_int must be 0 - 23"

E_MIN == "WatchError: min_int must be 0 - 59"

E_DAY == "WatchError: Invalid abbreviated day"

WatchErrors == {E_HEADER, E_OVERRUN, E_UNPACK, E_NOTIFICATION, E_MSG_TYPE, E_HEX,
                E_INTS, E_FORMAT, E_ALARM_IDX, E_HOUR, E_MIN, E_DAY}

NoOutcome == [op |-> "", kind |-> "none", exc |-> "", single |-> FALSE, vals |-> <<>>]

Raised(op, exc) == [op |-> op, kind |-> "raise", exc |-> exc, single |-> FALSE, vals |-> <<>>]

\* a call that returns None
Returned(op) == [op |-> op, kind |-> "return", exc |-> "", single |-> FALSE, vals |-> <<>>]

\* a call that returns one value (single) or a tuple of values
ReturnedVals(op, single, vals) ==
    [op |-> op, kind |-> "return", exc |-> "", single |-> single, vals |-> vals]

----------------------------------------------------------------------------
(* Threads that call the same client *)

Callers == {"t1", "t2"}

\* a thread that is in no call of the client
IdleCall == [pc |-> "idle", chunks |-> <<>>, query |-> FALSE, cmd_key |-> 0,
             unpack_str |-> "", got |-> <<>>, outcome |-> NoOutcome]

\* a call of a method of the client by its user
Call(op, args) == [op |-> op, args |-> args]

NoCall == Call("", <<>>)

\* the set commands whose setting the model of the watch keeps: steps goal
\* (0x16), quick view (0x18), watch face (0x19) and metric system (0x1A); the
\* get command of a setting has the key of its set command plus 0x10
SettingKeys == {22, 24, 25, 26}

\* a watch that was never set
FactorySettings == [k \in SettingKeys |-> IF k = 22 THEN <<0, 0, 0, 0>> ELSE <<0>>]

----------------------------------------------------------------------------
(* Construction and start *)

DEFAULT_AUTO_RECONNECT == TRUE

\* a default that is taken only when the argument is None
py_default_if_none(a, b) == IF a # None THEN a[1] ELSE b

\* Python's `a or b` for an optional boolean a
PyOr(a, b) == IF a # None /\ a[1] THEN a[1] ELSE b

AutoReconnectArgs == {None, Some(FALSE), Some(TRUE)}

\* the byte orders an interpreter can have
ByteOrders == {"little", "big"}

\* the client after __init__
Constructed ==
    /\ \E a \in AutoReconnectArgs : _auto_reconnect = PyOr(a, DEFAULT_AUTO_RECONNECT)
    /\ _is_connected = FALSE
    /\ _queue = <<>>
    /\ _acc_payload_bytes = <<>>
    /\ _expected_payload_byte_count = None
    /\ pc = "new"
    /\ cmd_key = 0
    /\ unpack_str = ""
    /\ acc_payload_bytes = None
    /\ payload_bytes = <<>>
    /\ pkg_bytes = <<>>
    /\ written = <<>>
    /\ reconnected = FALSE
    /\ outcome = NoOutcome
    /\ calls = [c \in Callers |-> IdleCall]
    /\ wire = <<>>
    /\ call = NoCall
    /\ sent = <<>>
    /\ watch = FactorySettings
    /\ msg_bytes = None

\* a client on a little-endian interpreter
Init ==
    /\ byteorder = "little"
    /\ Constructed

\* __enter__ -> _start -> _connect, then the callbacks are registered
_start ==
    /\ pc = "new"
    /\ pc' = "idle"
    /\ _is_connected' = TRUE
    /\ UNCHANGED <<byteorder, _auto_reconnect, _queue, reassembler, query_vars, send_vars, outcome,
                   conc_vars, lib_vars>>

----------------------------------------------------------------------------
(* The send path *)

\* a direct call of _send_packet (as send_message makes)
_send_packet(payload, fail) ==
    /\ pc = "idle"
    /\ LET r == send_packet(payload, _is_connected, _auto_reconnect, fail)
       IN  /\ payload_bytes' = payload
           /\ pkg_bytes' = r.pkg
           /\ written' = r.written
           /\ reconnected' = r.reconnected
           /\ _is_connected' = r.is_connected
           /\ outcome' = IF r.err # "" THEN Raised("_send_packet", r.err)
                         ELSE Returned("_send_packet")
    /\ call' = Call("_send_packet", <<payload>>)
    /\ sent' = <<payload>>
    /\ UNCHANGED <<watch, msg_bytes>>
    /\ UNCHANGED <<byteorder, _auto_reconnect, _queue, reassembler, pc, query_vars, conc_vars>>

----------------------------------------------------------------------------
(* Response layouts (struct format strings) *)

\* n fields of the same kind
Fields(n, f) == [i \in 1..n |-> f]

\* the fields of a struct format string: width in bytes, signedness, byte order;
\* a format without a prefix has the byte order of the interpreter
struct_layout(fmt) ==
    CASE fmt = "B"    -> Fields(1, [w |-> 1, signed |-> FALSE, big |-> TRUE])
      [] fmt = "BB"   -> Fields(2, [w |-> 1, signed |-> FALSE, big |-> TRUE])
      [] fmt = "BBBB" -> Fields(4, [w |-> 1, signed |-> FALSE, big |-> TRUE])
      [] fmt = "8B"   -> Fields(8, [w |-> 1, signed |-> FALSE, big |-> TRUE])
      [] fmt = "24B"  -> Fields(24, [w |-> 1, signed |-> FALSE, big |-> TRUE])
      [] fmt = "hh"   -> Fields(2, [w |-> 2, signed |-> TRUE, big |-> byteorder = "big"])
      [] fmt = ">I"   -> Fields(1, [w |-> 4, signed |-> FALSE, big |-> TRUE])
      [] fmt = "<I"   -> Fields(1, [w |-> 4, signed |-> FALSE, big |-> FALSE])
      [] OTHER        -> <<>>

RECURSIVE struct_calcsize(_)
struct_calcsize(layout) ==
    IF Len(layout) = 0 THEN 0 ELSE layout[1].w + struct_calcsize(Tail(layout))

Reverse(b) == [i \in 1..Len(b) |-> b[Len(b) + 1 - i]]

\* the unsigned value of big-endian bytes
RECURSIVE be_value(_)
be_value(b) ==
    IF Len(b) = 0 THEN 0 ELSE 256 * be_value(SubSeq(b, 1, Len(b) - 1)) + b[Len(b)]

\* a Python int beyond 31 bits, as the pair of its halves: hi * 65536 + lo
Long(hi, lo) == [hi |-> hi, lo |-> lo]

\* a signed field whose top bit is set counts its first byte as negative; the
\* value of a field of four bytes is held as a Long
field_value(f, b) ==
    LET bb == IF f.big THEN b ELSE Reverse(b)
        top == IF f.signed /\ bb[1] >= 128 THEN bb[1] - 256 ELSE bb[1]
    IN  IF f.w = 4 THEN Long(be_value(<<top, bb[2]>>), be_value(<<bb[3], bb[4]>>))
        ELSE be_value(<<top>> \o Tail(bb))

RECURSIVE struct_unpack_fields(_, _)
struct_unpack_fields(layout, b) ==
    IF Len(layout) = 0 THEN <<>>
    ELSE <<field_value(layout[1], SubSeq(b, 1, layout[1].w))>>
         \o struct_unpack_fields(Tail(layout), SubSeq(b, layout[1].w + 1, Len(b)))

\* struct.unpack(fmt, b)
struct_unpack(fmt, b) ==
    LET layout == struct_layout(fmt)
    IN  IF Len(b) # struct_calcsize(layout) THEN [err |-> "struct.error", vals |-> <<>>]
        ELSE [err |-> "", vals |-> struct_unpack_fields(layout, b)]

\* an unpack that hands back the tuple also when it holds a single value
unpack_payload_bytes_tuple(recv_payload_bytes, fmt) ==
    LET r == struct_unpack(fmt, recv_payload_bytes)
    IN  IF r.err # "" THEN [err |-> E_UNPACK, single |-> FALSE, vals |-> <<>>]
        ELSE [err |-> "", single |-> FALSE, vals |-> r.vals]

unpack_payload_bytes(recv_payload_bytes, fmt) ==
    LET r == struct_unpack(fmt, recv_payload_bytes)
    IN  IF r.err # "" THEN [err |-> E_UNPACK, single |-> FALSE, vals |-> <<>>]
        ELSE [err |-> "", single |-> (Len(r.vals) = 1), vals |-> r.vals]

----------------------------------------------------------------------------
(* Parsing and reassembly of async responses *)

\* a header check that subtracts the command byte as well
check_and_parse_header_minus5(pkg) ==
    IF SliceTo(pkg, 3) # Magic
    THEN [err |-> E_HEADER, val |-> 0]
    ELSE LET n == struct_unpack_B(Slice(pkg, 3, 4))
         IN  IF n.err # "" THEN [err |-> n.err, val |-> 0]
             ELSE [err |-> "", val |-> n.val - 5]

\* a header check that compares the first two bytes only
check_and_parse_header_two_bytes(pkg) ==
    IF SliceTo(pkg, 2) # SliceTo(Magic, 2)
    THEN [err |-> E_HEADER, val |-> 0]
    ELSE LET n == struct_unpack_B(Slice(pkg, 3, 4))
         IN  IF n.err # "" THEN [err |-> n.err, val |-> 0]
             ELSE [err |-> "", val |-> n.val - 4]

_check_and_parse_header(pkg) ==
    IF SliceTo(pkg, 3) # Magic
    THEN [err |-> E_HEADER, val |-> 0]
    ELSE LET n == struct_unpack_B(Slice(pkg, 3, 4))
         IN  IF n.err # "" THEN [err |-> n.err, val |-> 0]
             ELSE [err |-> "", val |-> n.val - 4]

\* a parse that forgets that the payload count includes the command byte
parse_initial_counts_cmd_byte(pkg) ==
    LET payload_byte_count == _check_and_parse_header(pkg)
        payload == SliceFrom(pkg, 4)
        key == struct_unpack_B(Slice(payload, 0, 1))
    IN  IF payload_byte_count.err # ""
        THEN [err |-> payload_byte_count.err, cmd_key |-> 0, count |-> 0, bytes |-> <<>>]
        ELSE IF key.err # ""
        THEN [err |-> key.err, cmd_key |-> 0, count |-> 0, bytes |-> <<>>]
        ELSE [err |-> "", cmd_key |-> key.val, count |-> payload_byte_count.val,
              bytes |-> SliceFrom(payload, 1)]

_parse_initial_async_response(pkg) ==
    LET payload_byte_count == _check_and_parse_header(pkg)
        payload == SliceFrom(pkg, 4)
        key == struct_unpack_B(Slice(payload, 0, 1))
    IN  IF payload_byte_count.err # ""
        THEN [err |-> payload_byte_count.err, cmd_key |-> 0, count |-> 0, bytes |-> <<>>]
        ELSE IF key.err # ""
        THEN [err |-> key.err, cmd_key |-> 0, count |-> 0, bytes |-> <<>>]
        ELSE [err |-> "", cmd_key |-> key.val, count |-> payload_byte_count.val - 1,
              bytes |-> SliceFrom(payload, 1)]

\* a length test without the overrun branch
check_complete_no_overrun(expected, acc) ==
    IF Len(acc) = expected
    THEN [err |-> "", ret |-> Some(acc), expected |-> None, acc |-> acc]
    ELSE [err |-> "", ret |-> None, expected |-> Some(expected), acc |-> acc]

\* lines 364-373: the test of the accumulated length against the expected count
check_complete(expected, acc) ==
    IF Len(acc) = expected
    THEN [err |-> "", ret |-> Some(acc), expected |-> None, acc |-> acc]
    ELSE IF Len(acc) > expected
    THEN [err |-> E_OVERRUN, ret |-> None, expected |-> Some(expected), acc |-> acc]
    ELSE [err |-> "", ret |-> None, expected |-> Some(expected), acc |-> acc]

\* a reassembler whose first fragment extends the buffer of the last response
handle_async_response_appends(expected_cmd_key, recv_pkg_bytes, expected, acc) ==
    IF expected = None
    THEN LET p == _parse_initial_async_response(recv_pkg_bytes)
         IN  IF p.err # ""
             THEN [err |-> p.err, ret |-> None, expected |-> expected, acc |-> acc]
             ELSE IF p.cmd_key # expected_cmd_key
             THEN [err |-> "AssertionError", ret |-> None,
                   expected |-> Some(p.count), acc |-> acc \o p.bytes]
             ELSE check_complete(p.count, acc \o p.bytes)
    ELSE check_complete(expected[1], acc \o recv_pkg_bytes)

\* a reassembler that takes any fragment starting with the magic as a header
handle_async_response_resync(expected_cmd_key, recv_pkg_bytes, expected, acc) ==
    IF expected = None \/ SliceTo(recv_pkg_bytes, 3) = Magic
    THEN LET p == _parse_initial_async_response(recv_pkg_bytes)
         IN  IF p.err # ""
             THEN [err |-> p.err, ret |-> None, expected |-> expected, acc |-> acc]
             ELSE IF p.cmd_key # expected_cmd_key
             THEN [err |-> "AssertionError", ret |-> None,
                   expected |-> Some(p.count), acc |-> p.bytes]
             ELSE check_complete(p.count, p.bytes)
    ELSE check_complete(expected[1], acc \o recv_pkg_bytes)

\* a continuation that replaces the buffer instead of extending it
handle_async_response_replace(expected_cmd_key, recv_pkg_bytes, expected, acc) ==
    IF expected = None
    THEN LET p == _parse_initial_async_response(recv_pkg_bytes)
         IN  IF p.err # ""
             THEN [err |-> p.err, ret |-> None, expected |-> expected, acc |-> acc]
             ELSE IF p.cmd_key # expected_cmd_key
             THEN [err |-> "AssertionError", ret |-> None,
                   expected |-> Some(p.count), acc |-> p.bytes]
             ELSE check_complete(p.count, p.bytes)
    ELSE check_complete(expected[1], recv_pkg_bytes)

\* _handle_async_response: ret is the returned object (None when it falls off
\* the end), expected and acc are the two fields as the call leaves them.
_handle_async_response(expected_cmd_key, recv_pkg_bytes, expected, acc) ==
    IF expected = None
    THEN LET p == _parse_initial_async_response(recv_pkg_bytes)
         IN  IF p.err # ""
             THEN [err |-> p.err, ret |-> None, expected |-> expected, acc |-> acc]
             ELSE IF p.cmd_key # expected_cmd_key
             THEN [err |-> "AssertionError", ret |-> None,
                   expected |-> Some(p.count), acc |-> p.bytes]
             ELSE check_complete(p.count, p.bytes)
    ELSE check_complete(expected[1], acc \o recv_pkg_bytes)

\* truth value of the object _handle_async_response returned
Truthy(ret) == ret # None /\ Len(ret[1]) > 0

----------------------------------------------------------------------------
(* Framing as a function: one packet is framed, written and its header parsed *)

FrameKeys == {0, 22, 65, 255}

ArgBytes(k, n) == [i \in 1..n |-> (k + 37 * i) % 256]

FramePayloads == {<<k>> \o ArgBytes(k, n) : k \in FrameKeys, n \in 0..MaxArgLen}

InitFrame ==
    /\ byteorder = "little"
    /\ \E a \in AutoReconnectArgs : _auto_reconnect = PyOr(a, DEFAULT_AUTO_RECONNECT)
    /\ _is_connected = FALSE
    /\ _queue = <<>>
    /\ _acc_payload_bytes = <<>>
    /\ _expected_payload_byte_count = None
    /\ pc = "new"
    /\ cmd_key = 0
    /\ unpack_str = ""
    /\ acc_payload_bytes = None
    /\ payload_bytes \in FramePayloads
    /\ pkg_bytes = <<>>
    /\ written = <<>>
    /\ reconnected = FALSE
    /\ outcome = NoOutcome
    /\ calls = [c \in Callers |-> IdleCall]
    /\ wire = <<>>
    /\ call = NoCall
    /\ sent = <<>>
    /\ watch = FactorySettings
    /\ msg_bytes = None

\* _send_packet(payload_bytes) with a transport that accepts every write
FrameSendPacket ==
    /\ outcome.kind = "none"
    /\ _send_packet(payload_bytes, 0)

\* _check_and_parse_header applied to the header of the packet just built
FrameParseHeader ==
    /\ outcome.op = "_send_packet"
    /\ outcome.kind = "return"
    /\ LET r == _check_and_parse_header(SliceTo(pkg_bytes, 4))
       IN  outcome' = IF r.err # "" THEN Raised("_check_and_parse_header", r.err)
                      ELSE ReturnedVals("_check_and_parse_header", TRUE, <<r.val>>)
    /\ UNCHANGED <<byteorder, _auto_reconnect, _is_connected, _queue, reassembler, pc,
                   query_vars, send_vars, conc_vars, lib_vars>>

NextFrame ==
    \/ _start
    \/ FrameSendPacket
    \/ FrameParseHeader

SpecFrame == InitFrame /\ [][NextFrame]_vars

----------------------------------------------------------------------------
(* Packing of command arguments *)

\* an argument value as the caller passes it: an int, an int beyond 31 bits
\* by its halves, a bool, a str (a sequence of characters) or None
IntArg(v) == [t |-> "int", v |-> v]

LongArg(hi, lo) == [t |-> "long", v |-> Long(hi, lo)]

BoolArg(b) == [t |-> "bool", v |-> b]

StrArg(s) == [t |-> "str", v |-> s]

NoneArg == [t |-> "NoneType", v |-> None]

\* the halves of an int
ToLong(v) == Long(v \div 65536, v % 65536)

Digits == <<"0", "1", "2", "3", "4", "5", "6", "7", "8", "9">>

IsDigit(c) == \E i \in 1..10 : Digits[i] = c

DigitVal(c) == (CHOOSE i \in 1..10 : Digits[i] = c) - 1

\* the value of a string of decimal digits
RECURSIVE decimal(_)
decimal(s) ==
    IF Len(s) = 0 THEN 0 ELSE 10 * decimal(SubSeq(s, 1, Len(s) - 1)) + DigitVal(s[Len(s)])

\* int(x): an int as it is, True as 1, a str of decimal digits as its value;
\* None raises TypeError and any other str ValueError
py_int(x) ==
    CASE x.t = "int"      -> [err |-> "", val |-> ToLong(x.v)]
      [] x.t = "long"     -> [err |-> "", val |-> x.v]
      [] x.t = "bool"     -> [err |-> "", val |-> ToLong(IF x.v THEN 1 ELSE 0)]
      [] x.t = "NoneType" -> [err |-> "TypeError", val |-> ToLong(0)]
      [] x.t = "str" /\ Len(x.v) > 0 /\ \A i \in 1..Len(x.v) : IsDigit(x.v[i])
                          -> [err |-> "", val |-> ToLong(decimal(x.v))]
      [] OTHER            -> [err |-> "ValueError", val |-> ToLong(0)]

\* list(map(int, arg_tup)): the first failing conversion raises
RECURSIVE map_int(_)
map_int(arg_tup) ==
    IF Len(arg_tup) = 0 THEN [err |-> "", vals |-> <<>>]
    ELSE LET h == py_int(arg_tup[1])
             t == map_int(Tail(arg_tup))
         IN  IF h.err # "" THEN [err |-> h.err, vals |-> <<>>]
             ELSE IF t.err # "" THEN t
             ELSE [err |-> "", vals |-> <<h.val>> \o t.vals]

\* the w low bytes of v, most significant first
RECURSIVE be_bytes(_, _)
be_bytes(v, w) ==
    IF w = 0 THEN <<>> ELSE be_bytes(v \div 256, w - 1) \o <<v % 256>>

\* the Long v fits the field of 1, 2 or 4 bytes
field_in_range(f, v) ==
    LET n == 256 ^ f.w
    IN  IF f.w = 4
        THEN IF f.signed THEN v.hi >= -32768 /\ v.hi < 32768
                         ELSE v.hi >= 0 /\ v.hi < 65536
        ELSE IF f.signed THEN \/ v.hi = 0 /\ v.lo < n \div 2
                              \/ v.hi = -1 /\ v.lo >= 65536 - n \div 2
                         ELSE v.hi = 0 /\ v.lo < n

\* a pack that ignores the byte order of the field
field_bytes_little(f, v) ==
    Reverse(IF f.w = 4 THEN be_bytes(v.hi % 65536, 2) \o be_bytes(v.lo, 2)
            ELSE be_bytes(v.lo, f.w))

\* two's complement: \div and % round towards minus infinity
field_bytes(f, v) ==
    LET b == IF f.w = 4 THEN be_bytes(v.hi % 65536, 2) \o be_bytes(v.lo, 2)
             ELSE be_bytes(v.lo, f.w)
    IN  IF f.big THEN b ELSE Reverse(b)

RECURSIVE struct_pack_fields(_, _)
struct_pack_fields(layout, ints) ==
    IF Len(layout) = 0 THEN <<>>
    ELSE field_bytes(layout[1], ints[1]) \o struct_pack_fields(Tail(layout), Tail(ints))

\* struct.pack(fmt, *ints)
struct_pack(fmt, ints) ==
    LET layout == struct_layout(fmt)
    IN  IF Len(ints) # Len(layout)
           \/ \E i \in 1..Len(layout) : ~field_in_range(layout[i], ints[i])
        THEN [err |-> "struct.error", bytes |-> <<>>]
        ELSE [err |-> "", bytes |-> struct_pack_fields(layout, ints)]

\* _send_raw_cmd up to the call of _send_packet: the payload, or the exception
raw_cmd_payload(key, pack_str, arg_tup) ==
    LET int_tup == map_int(arg_tup)
        arg_bytes == IF pack_str # "" THEN struct_pack(pack_str, int_tup.vals)
                     ELSE [err |-> "", bytes |-> <<>>]
    IN  IF int_tup.err = "TypeError" THEN [err |-> E_INTS, bytes |-> <<>>]
        ELSE IF int_tup.err # "" THEN [err |-> int_tup.err, bytes |-> <<>>]
        ELSE IF arg_bytes.err # "" THEN [err |-> E_FORMAT, bytes |-> <<>>]
        ELSE [err |-> "", bytes |-> <<key>> \o arg_bytes.bytes]

\* _send_raw_cmd as a function of the client's state
send_raw_cmd(key, pack_str, arg_tup, connected, auto, fail) ==
    LET p == raw_cmd_payload(key, pack_str, arg_tup)
        r == send_packet(p.bytes, connected, auto, fail)
    IN  IF p.err # ""
        THEN [err |-> p.err, called |-> FALSE, payload |-> <<>>, pkg |-> <<>>,
              written |-> <<>>, is_connected |-> connected, reconnected |-> FALSE]
        ELSE [err |-> r.err, called |-> TRUE, payload |-> p.bytes, pkg |-> r.pkg,
              written |-> r.written, is_connected |-> r.is_connected,
              reconnected |-> r.reconnected]

\* a fire-and-forget command that drops the events that wait in the queue
send_raw_cmd_flushes_queue(key, pack_str, arg_tup, fail) ==
    /\ pc = "idle"
    /\ LET r == send_raw_cmd(key, pack_str, arg_tup, _is_connected, _auto_reconnect, fail)
       IN  /\ payload_bytes' = r.payload
           /\ pkg_bytes' = r.pkg
           /\ written' = r.written
           /\ reconnected' = r.reconnected
           /\ _is_connected' = r.is_connected
           /\ outcome' = IF r.err # "" THEN Raised("_send_raw_cmd", r.err)
                         ELSE Returned("_send_raw_cmd")
           /\ sent' = IF r.called THEN <<r.payload>> ELSE <<>>
    /\ call' = Call("_send_raw_cmd", <<key, pack_str, arg_tup>>)
    /\ _queue' = <<>>
    /\ UNCHANGED <<watch, msg_bytes>>
    /\ UNCHANGED <<byteorder, _auto_reconnect, reassembler, pc, query_vars, conc_vars>>

\* a fire-and-forget command
_send_raw_cmd(key, pack_str, arg_tup, fail) ==
    /\ pc = "idle"
    /\ LET r == send_raw_cmd(key, pack_str, arg_tup, _is_connected, _auto_reconnect, fail)
       IN  /\ payload_bytes' = r.payload
           /\ pkg_bytes' = r.pkg
           /\ written' = r.written
           /\ reconnected' = r.reconnected
           /\ _is_connected' = r.is_connected
           /\ outcome' = IF r.err # "" THEN Raised("_send_raw_cmd", r.err)
                         ELSE Returned("_send_raw_cmd")
           /\ sent' = IF r.called THEN <<r.payload>> ELSE <<>>
    /\ call' = Call("_send_raw_cmd", <<key, pack_str, arg_tup>>)
    /\ UNCHANGED <<watch, msg_bytes>>
    /\ UNCHANGED <<byteorder, _auto_reconnect, _queue, reassembler, pc, query_vars, conc_vars>>

\* a query: _send_raw_cmd, then the caller enters _get_response
_get_raw_cmd(key, pack_str, fmt, arg_tup, fail) ==
    /\ pc = "idle"
    /\ LET r == send_raw_cmd(key, pack_str, arg_tup, _is_connected, _auto_reconnect, fail)
       IN  /\ payload_bytes' = r.payload
           /\ pkg_bytes' = r.pkg
           /\ written' = r.written
           /\ reconnected' = r.reconnected
           /\ _is_connected' = r.is_connected
           /\ IF r.err # ""
              THEN /\ outcome' = Raised("_get_raw_cmd", r.err)
                   /\ pc' = "idle"
                   /\ UNCHANGED query_vars
              ELSE /\ outcome' = NoOutcome
                   /\ pc' = "waiting"
                   /\ cmd_key' = key
                   /\ unpack_str' = fmt
                   /\ acc_payload_bytes' = None
           /\ sent' = IF r.called THEN <<r.payload>> ELSE <<>>
    /\ call' = Call("_get_raw_cmd", <<key, pack_str, fmt, arg_tup>>)
    /\ UNCHANGED <<watch, msg_bytes>>
    /\ UNCHANGED <<byteorder, _auto_reconnect, _queue, reassembler, conc_vars>>

----------------------------------------------------------------------------
(* The transport's callbacks *)

async_response_handle == "async_response"

accelerometer_handle == "accelerometer"

\* bytes of async notifications the queue holds and the accumulator would take
PendingLen ==
    LET n == Len(_queue)
        size(i) == IF _queue[i][1] = "notification" /\ _queue[i][2] = async_response_handle
                   THEN Len(_queue[i][3]) ELSE 0
        sum[i \in 0..n] == IF i = 0 THEN 0 ELSE sum[i - 1] + size(i)
    IN  sum[n]

\* the environment stops feeding a response in progress at MaxAcc bytes
AccRoom(handle, value) ==
    \/ handle # async_response_handle
    \/ _expected_payload_byte_count = None /\ PendingLen = 0
    \/ Len(_acc_payload_bytes) + PendingLen + Len(value) <= MaxAcc

\* a callback that puts its notification at the head of the queue
data_callback_at_head(handle, value) ==
    /\ pc # "new"
    /\ Len(_queue) < MaxQueue
    /\ AccRoom(handle, value)
    /\ _queue' = <<<<"notification", handle, value>>>> \o _queue
    /\ UNCHANGED <<byteorder, _auto_reconnect, _is_connected, reassembler, pc, query_vars,
                   send_vars, outcome, conc_vars, lib_vars>>

\* a callback that handles the disconnect itself: it clears the flag and
\* drops the response in progress
disconnect_callback_handles ==
    /\ pc # "new"
    /\ Len(_queue) < MaxQueue
    /\ _queue' = Append(_queue, <<"disconnected">>)
    /\ _is_connected' = FALSE
    /\ _expected_payload_byte_count' = None
    /\ UNCHANGED <<byteorder, _auto_reconnect, _acc_payload_bytes, pc, query_vars,
                   send_vars, outcome, conc_vars, lib_vars>>

data_callback(handle, value) ==
    /\ pc # "new"
    /\ Len(_queue) < MaxQueue
    /\ AccRoom(handle, value)
    /\ _queue' = Append(_queue, <<"notification", handle, value>>)
    /\ UNCHANGED <<byteorder, _auto_reconnect, _is_connected, reassembler, pc, query_vars,
                   send_vars, outcome, conc_vars, lib_vars>>

disconnect_callback ==
    /\ pc # "new"
    /\ Len(_queue) < MaxQueue
    /\ _queue' = Append(_queue, <<"disconnected">>)
    /\ UNCHANGED <<byteorder, _auto_reconnect, _is_connected, reassembler, pc, query_vars,
                   send_vars, outcome, conc_vars, lib_vars>>

----------------------------------------------------------------------------
(* The blocking loop of _get_response: one iteration per event *)

\* a loop body that tests the accumulator field instead of the returned object
get_response_step_field_test(msg, key, fmt, connected, expected, acc, local) ==
    LET stay == [done |-> FALSE, outcome |-> NoOutcome, is_connected |-> connected,
                 expected |-> expected, acc |-> acc, local |-> local]
    IN  IF msg[1] = "notification"
        THEN IF msg[2] = async_response_handle
             THEN LET h == _handle_async_response(key, msg[3], expected, acc)
                      u == unpack_payload_bytes(h.acc, fmt)
                      after == [stay EXCEPT !.expected = h.expected, !.acc = h.acc]
                  IN  IF h.err # ""
                      THEN [after EXCEPT !.done = TRUE,
                                         !.outcome = Raised("_get_response", h.err)]
                      ELSE IF Len(h.acc) > 0
                      THEN [after EXCEPT !.local = h.ret, !.done = TRUE,
                                         !.outcome =
                                            IF u.err # ""
                                            THEN Raised("_get_response", u.err)
                                            ELSE ReturnedVals("_get_response", u.single, u.vals)]
                      ELSE [after EXCEPT !.local = h.ret]
             ELSE IF msg[2] = accelerometer_handle
             THEN stay
             ELSE [stay EXCEPT !.done = TRUE,
                               !.outcome = Raised("_get_response", E_NOTIFICATION)]
        ELSE IF msg[1] = "disconnected"
        THEN [stay EXCEPT !.is_connected = FALSE]
        ELSE [stay EXCEPT !.done = TRUE,
                          !.outcome = Raised("_get_response", E_MSG_TYPE)]

\* a disconnect handler that leaves the flag alone
handle_disconnect_keeps_flag(connected) == connected

\* _handle_disconnect: the value it gives self._is_connected
_handle_disconnect(connected) == FALSE

\* the loop body for a notification on the async-response handle (lines 296-300)
async_response_step(value, key, fmt, connected, expected, acc, local) ==
    LET h == _handle_async_response(key, value, expected, acc)
        u == unpack_payload_bytes(h.ret[1], fmt)
        after == [done |-> FALSE, outcome |-> NoOutcome, is_connected |-> connected,
                  expected |-> h.expected, acc |-> h.acc, local |-> local]
    IN  IF h.err # ""
        THEN [after EXCEPT !.done = TRUE, !.outcome = Raised("_get_response", h.err)]
        ELSE IF Truthy(h.ret)
        THEN [after EXCEPT !.local = h.ret, !.done = TRUE,
                           !.outcome =
                              IF u.err # ""
                              THEN Raised("_get_response", u.err)
                              ELSE ReturnedVals("_get_response", u.single, u.vals)]
        ELSE [after EXCEPT !.local = h.ret]

\* a loop body that hands accelerometer notifications to the reassembler too
get_response_step_accelerometer_reassembled(msg, key, fmt, connected, expected, acc, local) ==
    LET stay == [done |-> FALSE, outcome |-> NoOutcome, is_connected |-> connected,
                 expected |-> expected, acc |-> acc, local |-> local]
    IN  IF msg[1] = "notification"
        THEN IF msg[2] \in {async_response_handle, accelerometer_handle}
             THEN async_response_step(msg[3], key, fmt, connected, expected, acc, local)
             ELSE [stay EXCEPT !.done = TRUE,
                               !.outcome = Raised("_get_response", E_NOTIFICATION)]
        ELSE IF msg[1] = "disconnected"
        THEN [stay EXCEPT !.is_connected = _handle_disconnect(connected)]
        ELSE [stay EXCEPT !.done = TRUE,
                          !.outcome = Raised("_get_response", E_MSG_TYPE)]

\* a loop body that skips what it does not know
get_response_step_skips_unknown(msg, key, fmt, connected, expected, acc, local) ==
    LET stay == [done |-> FALSE, outcome |-> NoOutcome, is_connected |-> connected,
                 expected |-> expected, acc |-> acc, local |-> local]
    IN  IF msg[1] = "notification"
        THEN IF msg[2] = async_response_handle
             THEN async_response_step(msg[3], key, fmt, connected, expected, acc, local)
             ELSE stay
        ELSE IF msg[1] = "disconnected"
        THEN [stay EXCEPT !.is_connected = _handle_disconnect(connected)]
        ELSE stay

\* one pass of the loop body for the event msg
get_response_step(msg, key, fmt, connected, expected, acc, local) ==
    LET stay == [done |-> FALSE, outcome |-> NoOutcome, is_connected |-> connected,
                 expected |-> expected, acc |-> acc, local |-> local]
    IN  IF msg[1] = "notification"
        THEN IF msg[2] = async_response_handle
             THEN async_response_step(msg[3], key, fmt, connected, expected, acc, local)
             ELSE IF msg[2] = accelerometer_handle
             THEN stay
             ELSE [stay EXCEPT !.done = TRUE,
                               !.outcome = Raised("_get_response", E_NOTIFICATION)]
        ELSE IF msg[1] = "disconnected"
        THEN [stay EXCEPT !.is_connected = _handle_disconnect(connected)]
        ELSE [stay EXCEPT !.done = TRUE,
                          !.outcome = Raised("_get_response", E_MSG_TYPE)]

\* divmod(a, b) for b > 0
divmod(a, b) == <<a \div b, a % b>>

\* a period getter that takes the minutes for the hours
period_return_swapped(op, o) ==
    ReturnedVals(op, FALSE, <<o.vals[1] % 60, o.vals[1] \div 60,
                              o.vals[2] % 60, o.vals[2] \div 60>>)

\* get_quick_view_enabled_period, get_dnd_period and
\* get_sedentary_reminder_period after _get_raw_cmd returned (from_min, to_min)
period_return(op, o) ==
    ReturnedVals(op, FALSE, divmod(o.vals[1], 60) \o divmod(o.vals[2], 60))

\* a get_watch_face that returns the number the watch reports
watch_face_return_raw(op, o) == ReturnedVals(op, TRUE, <<o.vals[1]>>)

\* get_watch_face after _get_raw_cmd returned the number of the watch face
watch_face_return(op, o) == ReturnedVals(op, TRUE, <<o.vals[1] - 1>>)

\* what the method that called _get_raw_cmd makes of its outcome o
method_return(op, o) ==
    IF o.kind # "return" THEN o
    ELSE CASE op \in {"get_quick_view_enabled_period", "get_dnd_period",
                     "get_sedentary_reminder_period"}
                 -> period_return(op, o)
           [] op = "get_quick_view"
                 -> ReturnedVals(op, TRUE, <<BoolArg(o.vals[1] # 0)>>)
           [] op = "get_watch_face"
                 -> watch_face_return(op, o)
           [] OTHER -> o

_get_response ==
    /\ pc = "waiting"
    /\ Len(_queue) > 0
    /\ LET r == get_response_step(Head(_queue), cmd_key, unpack_str, _is_connected,
                                  _expected_payload_byte_count, _acc_payload_bytes,
                                  acc_payload_bytes)
       IN  /\ _queue' = Tail(_queue)
           /\ _is_connected' = r.is_connected
           /\ _expected_payload_byte_count' = r.expected
           /\ _acc_payload_bytes' = r.acc
           /\ acc_payload_bytes' = r.local
           /\ outcome' = method_return(call.op, r.outcome)
           /\ pc' = IF r.done THEN "idle" ELSE "waiting"
    /\ UNCHANGED <<byteorder, _auto_reconnect, cmd_key, unpack_str, send_vars, conc_vars, lib_vars>>

----------------------------------------------------------------------------
(* The client under its callers and its transport *)

\* the query command of the reassembly runs: get_quick_view (0x28), "B"
QueryCmds == {<<40, "B">>}

\* length bytes, command keys and data of the first fragments of responses
LenBytes == {5, 6, 7}

RespKeys == {40, 42}

HeaderData == {<<>>, <<11>>}

HeaderFrags == {Magic \o <<l, k>> \o d : l \in LenBytes, k \in RespKeys, d \in HeaderData}

\* continuation fragments
ContFrags == {<<11>>, <<184>>, <<184, 11>>}

\* fragments that are no header: a wrong third byte, and headers cut short
BadFrags == {<<254, 234, 17, 6, 40>>, Magic, Magic \o <<6>>}

AsyncValues == HeaderFrags \cup ContFrags \cup BadFrags

Notifications ==
    {<<async_response_handle, v>> : v \in AsyncValues}
        \cup {<<accelerometer_handle, <<1, 2>>>>, <<"other", <<0>>>>}

Next ==
    \/ _start
    \/ \E c \in QueryCmds : \E f \in 0..1 : _get_raw_cmd(c[1], "", c[2], <<>>, f)
    \/ \E n \in Notifications : data_callback(n[1], n[2])
    \/ disconnect_callback
    \/ _get_response

Spec == Init /\ [][Next]_vars

----------------------------------------------------------------------------
(* The send path under a transport that disconnects and whose writes can fail *)

\* fire-and-forget commands: set_quick_view (0x18, "B"), set_steps_goal (0x16, ">I"),
\* and set_quick_view with a value that is no byte
SetCmds == {<<24, "B", <<IntArg(1)>>>>, <<22, ">I", <<IntArg(3000)>>>>,
            <<24, "B", <<IntArg(256)>>>>}

\* payloads of direct _send_packet calls: a one-letter message (send_message),
\* and payloads of 251 and 252 bytes
DirectPayloads == {<<65, 1, 97>>, <<65>> \o ArgBytes(65, 250), <<65>> \o ArgBytes(65, 251)}

\* a first fragment for another command, which leaves a response in progress
SendNotifications == {<<async_response_handle, Magic \o <<6, 42>>>>}

NextSend ==
    \/ _start
    \/ \E p \in DirectPayloads : \E f \in WriteFailures(p) : _send_packet(p, f)
    \/ \E c \in SetCmds : \E f \in 0..1 : _send_raw_cmd(c[1], c[2], c[3], f)
    \/ \E c \in QueryCmds : \E f \in 0..1 : _get_raw_cmd(c[1], "", c[2], <<>>, f)
    \/ \E n \in SendNotifications : data_callback(n[1], n[2])
    \/ disconnect_callback
    \/ _get_response

SpecSend == Init /\ [][NextSend]_vars

----------------------------------------------------------------------------
(* Two threads that call the same client: the client has no lock, so a      *)
(* thread can be anywhere in _send_packet or _get_response while the other  *)
(* runs. A step is one char_write or one pass of the _get_response loop.    *)

\* a thread that has run _send_packet up to its write loop
Writing(payload, query, fmt) ==
    [pc |-> "writing", query |-> query, cmd_key |-> payload[1], unpack_str |-> fmt,
     chunks |-> send_packet(payload, _is_connected, _auto_reconnect, 0).written,
     got |-> <<>>, outcome |-> NoOutcome]

\* thread c calls _send_packet(payload), as send_message does; each thread
\* makes one call
thread_send_packet(c, payload) ==
    /\ pc = "idle"
    /\ calls[c] = IdleCall
    /\ send_packet(payload, _is_connected, _auto_reconnect, 0).err = ""
    /\ _is_connected' = send_packet(payload, _is_connected, _auto_reconnect, 0).is_connected
    /\ calls' = [calls EXCEPT ![c] = Writing(payload, FALSE, "")]
    /\ UNCHANGED <<byteorder, _auto_reconnect, _queue, reassembler, pc, query_vars, send_vars,
                   outcome, wire, lib_vars>>

\* thread c calls _get_raw_cmd(key, None, fmt)
thread_get_raw_cmd(c, key, fmt) ==
    /\ pc = "idle"
    /\ calls[c] = IdleCall
    /\ send_packet(<<key>>, _is_connected, _auto_reconnect, 0).err = ""
    /\ _is_connected' = send_packet(<<key>>, _is_connected, _auto_reconnect, 0).is_connected
    /\ calls' = [calls EXCEPT ![c] = Writing(<<key>>, TRUE, fmt)]
    /\ UNCHANGED <<byteorder, _auto_reconnect, _queue, reassembler, pc, query_vars, send_vars,
                   outcome, wire, lib_vars>>

\* one pass of the write loop of thread c: the next chunk goes to char_write;
\* after the last chunk _send_packet returns
thread_write_chunk(c) ==
    /\ calls[c].pc = "writing"
    /\ wire' = Append(wire, <<c, Head(calls[c].chunks)>>)
    /\ LET last == Len(calls[c].chunks) = 1
       IN  calls' = [calls EXCEPT
                        ![c].chunks = Tail(@),
                        ![c].pc = IF ~last THEN "writing"
                                  ELSE IF calls[c].query THEN "waiting" ELSE "idle",
                        ![c].outcome = IF last /\ ~calls[c].query
                                       THEN Returned("_send_packet") ELSE @]
    /\ UNCHANGED <<byteorder, _auto_reconnect, _is_connected, _queue, reassembler, pc, query_vars,
                   send_vars, outcome, lib_vars>>

\* one pass of the _get_response loop of thread c; got keeps the fragments the
\* reassembler took from this thread without an error
thread_get_response(c) ==
    /\ calls[c].pc = "waiting"
    /\ Len(_queue) > 0
    /\ LET msg == Head(_queue)
           r == get_response_step(msg, calls[c].cmd_key, calls[c].unpack_str,
                                  _is_connected, _expected_payload_byte_count,
                                  _acc_payload_bytes, None)
           taken == /\ msg[1] = "notification"
                    /\ msg[2] = async_response_handle
                    /\ _handle_async_response(calls[c].cmd_key, msg[3],
                                              _expected_payload_byte_count,
                                              _acc_payload_bytes).err = ""
       IN  /\ _queue' = Tail(_queue)
           /\ _is_connected' = r.is_connected
           /\ _expected_payload_byte_count' = r.expected
           /\ _acc_payload_bytes' = r.acc
           /\ calls' = [calls EXCEPT
                           ![c].pc = IF r.done THEN "idle" ELSE "waiting",
                           ![c].got = IF taken THEN Append(@, msg[3]) ELSE @,
                           ![c].outcome = r.outcome]
    /\ UNCHANGED <<byteorder, _auto_reconnect, pc, query_vars, send_vars, outcome, wire, lib_vars>>

\* a send_message part of 16 letters: a packet of 22 bytes, two chunks
ConcPayloads == {<<65, 16>> \o ArgBytes(65, 16)}

\* a response to get_quick_view spread over two fragments
ConcNotifications == {<<async_response_handle, Magic \o <<6, 40>>>>,
                      <<async_response_handle, <<184>>>>}

NextConc ==
    \/ _start
    \/ \E c \in Callers : \E p \in ConcPayloads : thread_send_packet(c, p)
    \/ \E c \in Callers : \E q \in QueryCmds : thread_get_raw_cmd(c, q[1], q[2])
    \/ \E c \in Callers : thread_write_chunk(c)
    \/ \E c \in Callers : thread_get_response(c)
    \/ \E n \in ConcNotifications : data_callback(n[1], n[2])

SpecConc == Init /\ [][NextConc]_vars

----------------------------------------------------------------------------
(* The methods of Uwatch2 (src/uwatch2lib.py) and the calls its users make *)

\* a client on either kind of interpreter
InitLib ==
    /\ byteorder \in ByteOrders
    /\ Constructed

\* calls of _send_raw_cmd: arguments that fit the layout (set_step_length,
\* 0x54, and set_dnd_period, 0x71), too few and too many values, values out of
\* range, values int() rejects, and a command without a layout (0x61) with and
\* without values
RawCmds ==
    <<<<84, "B", <<IntArg(1)>>>>, <<84, "B", <<StrArg(<<"1">>)>>>>,
      <<84, "B", <<IntArg(66)>>>>, <<84, "B", <<IntArg(211)>>>>,
      <<84, "B", <<BoolArg(TRUE)>>>>, <<84, "B", <<StrArg(<<"2", "5", "5">>)>>>>,
      <<113, "BBBB", <<IntArg(22), IntArg(0), IntArg(7), IntArg(59)>>>>,
      <<24, "B", <<>>>>, <<24, "B", <<IntArg(1), IntArg(0)>>>>,
      <<24, "B", <<IntArg(256)>>>>, <<24, "B", <<IntArg(-1)>>>>,
      <<22, ">I", <<LongArg(65536, 0)>>>>, <<22, ">I", <<IntArg(-1)>>>>,
      <<24, "B", <<NoneArg>>>>, <<24, "B", <<StrArg(<<"a", "b", "c">>)>>>>,
      <<97, "", <<>>>>, <<97, "", <<IntArg(1)>>>>, <<97, "", <<NoneArg>>>>>>

\* the response layouts the methods of Uwatch2 use
UnpackStrs == {"B", "BB", "BBBB", "hh", "<I"}

\* the payloads that are unpacked: up to MaxAcc bytes, with and without the
\* top bit set
Payloads == {ArgBytes(k, n) : k \in {0, 91, 220}, n \in 0..MaxAcc}

\* a call of the public method unpack_payload_bytes
call_unpack_payload_bytes(recv_payload_bytes, fmt) ==
    /\ pc = "idle"
    /\ call' = Call("unpack_payload_bytes", <<recv_payload_bytes, fmt>>)
    /\ sent' = <<>>
    /\ UNCHANGED <<watch, msg_bytes>>
    /\ LET u == unpack_payload_bytes(recv_payload_bytes, fmt)
       IN  outcome' = IF u.err # "" THEN Raised("unpack_payload_bytes", u.err)
                      ELSE ReturnedVals("unpack_payload_bytes", u.single, u.vals)
    /\ UNCHANGED <<byteorder, _auto_reconnect, _is_connected, _queue, reassembler, pc,
                   query_vars, send_vars, conc_vars>>

\* the watch takes a set command that was written in full: it keeps the
\* argument bytes of the settings it has
watch_receives(w, payload) ==
    IF payload[1] \in SettingKeys /\ Len(payload) = Len(w[payload[1]]) + 1
    THEN [w EXCEPT ![payload[1]] = Tail(payload)]
    ELSE w

\* the data of the watch's response to the get command of a setting: the
\* bytes of the setting, the steps goal least significant byte first
watch_reports(w, key) ==
    IF key = 38 THEN Reverse(w[22]) ELSE w[key - 16]

\* a method of Uwatch2 that is one call of _send_raw_cmd
send_cmd(op, args, key, pack_str, arg_tup, fail) ==
    \E r \in {send_raw_cmd(key, pack_str, arg_tup, _is_connected, _auto_reconnect, fail)} :
        /\ payload_bytes' = r.payload
        /\ pkg_bytes' = r.pkg
        /\ written' = r.written
        /\ reconnected' = r.reconnected
        /\ _is_connected' = r.is_connected
        /\ outcome' = IF r.err # "" THEN Raised(op, r.err) ELSE Returned(op)
        /\ sent' = IF r.called THEN <<r.payload>> ELSE <<>>
        /\ call' = Call(op, args)
        /\ watch' = IF r.called /\ r.err = "" THEN watch_receives(watch, r.payload)
                     ELSE watch
        /\ UNCHANGED <<byteorder, _auto_reconnect, _queue, reassembler, pc, query_vars,
                       conc_vars, msg_bytes>>

\* steps goals: 0, 3000, 4000, 2^31 - 1, 2^31, 3087728640, 2^32 - 1, and
\* 2^32 and -1, which no unsigned 32-bit field holds
StepsGoals ==
    {LongArg(0, 0), LongArg(0, 3000), LongArg(0, 4000), LongArg(32767, 65535),
     LongArg(32768, 0), LongArg(47115, 0), LongArg(65535, 65535),
     LongArg(65536, 0), LongArg(-1, 65535)}

\* a method of Uwatch2 whose body is one call of _send_raw_cmd, as that call
SendRawCmd(op, args, key, pack_str, arg_tup) ==
    [op |-> op, args |-> args, key |-> key, pack_str |-> pack_str, arg_tup |-> arg_tup]

set_steps_goal(steps_int) ==
    SendRawCmd("set_steps_goal", <<steps_int>>, 22, ">I", <<steps_int>>)

\* a call of a method c that is one call of _send_raw_cmd
call_setter(c, fail) ==
    /\ pc = "idle"
    /\ send_cmd(c.op, c.args, c.key, c.pack_str, c.arg_tup, fail)

\* a method of Uwatch2 that is one call of _get_raw_cmd(key, None, fmt): the
\* command is sent and the caller enters _get_response
send_query(op, key, fmt, fail) ==
    \E r \in {send_raw_cmd(key, "", <<>>, _is_connected, _auto_reconnect, fail)} :
        /\ payload_bytes' = r.payload
        /\ pkg_bytes' = r.pkg
        /\ written' = r.written
        /\ reconnected' = r.reconnected
        /\ _is_connected' = r.is_connected
        /\ IF r.err # ""
           THEN /\ outcome' = Raised(op, r.err)
                /\ pc' = "idle"
                /\ UNCHANGED query_vars
           ELSE /\ outcome' = NoOutcome
                /\ pc' = "waiting"
                /\ cmd_key' = key
                /\ unpack_str' = fmt
                /\ acc_payload_bytes' = None
        /\ sent' = IF r.called THEN <<r.payload>> ELSE <<>>
        /\ call' = Call(op, <<>>)
        /\ UNCHANGED <<byteorder, _auto_reconnect, _queue, reassembler, conc_vars, watch, msg_bytes>>

get_quick_view_enabled_period(fail) ==
    /\ pc = "idle"
    /\ send_query("get_quick_view_enabled_period", 130, "hh", fail)

get_dnd_period(fail) ==
    /\ pc = "idle"
    /\ send_query("get_dnd_period", 129, "hh", fail)

\* a response of the watch in one notification: the header, the command key
\* and the data
Response(key, data) == Magic \o <<Len(data) + 5, key>> \o data

\* the watch answers the query the caller waits for
watch_responds(data) ==
    /\ pc = "waiting"
    /\ _queue = <<>>
    /\ \E value \in {Response(cmd_key, data)} :
           data_callback(async_response_handle, value)

----------------------------------------------------------------------------
(* Alarms; a str is the sequence of its characters *)

DAYS_TUP ==
    <<<<"S", "u", "n">>, <<"M", "o", "n">>, <<"T", "u", "e">>, <<"W", "e", "d">>,
      <<"T", "h", "u">>, <<"F", "r", "i">>, <<"S", "a", "t">>>>

UpperCase ==
    <<"A", "B", "C", "D", "E", "F", "G", "H", "I", "J", "K", "L", "M", "N", "O", "P",
      "Q", "R", "S", "T", "U", "V", "W", "X", "Y", "Z">>

LowerCase ==
    <<"a", "b", "c", "d", "e", "f", "g", "h", "i", "j", "k", "l", "m", "n", "o", "p",
      "q", "r", "s", "t", "u", "v", "w", "x", "y", "z">>

\* str.lower()
lower(str) ==
    [i \in 1..Len(str) |->
        IF \E k \in 1..Len(UpperCase) : UpperCase[k] = str[i]
        THEN LowerCase[CHOOSE k \in 1..Len(UpperCase) : UpperCase[k] = str[i]]
        ELSE str[i]]

\* bit day_idx of repeat_days_int
bit(repeat_days_int, day_idx) == (repeat_days_int \div 2 ^ day_idx) % 2

\* _parse_alarm_repeat_days(repeat_days_int): the names of the days whose bit
\* is set, in the order of DAYS_TUP
RECURSIVE parse_days_from(_, _)
parse_days_from(repeat_days_int, day_idx) ==
    IF day_idx >= 7 THEN <<>>
    ELSE (IF bit(repeat_days_int, day_idx) = 1 THEN <<DAYS_TUP[day_idx + 1]>> ELSE <<>>)
             \o parse_days_from(repeat_days_int, day_idx + 1)

_parse_alarm_repeat_days(repeat_days_int) == parse_days_from(repeat_days_int, 0)

\* an update of repeat_days_int that adds 1 << day_idx
add_day(repeat_days_int, day_idx) == repeat_days_int + 2 ^ day_idx

\* repeat_days_int |= 1 << day_idx
or_day(repeat_days_int, day_idx) ==
    IF bit(repeat_days_int, day_idx) = 1 THEN repeat_days_int
    ELSE repeat_days_int + 2 ^ day_idx

\* days_lower_tup.index(day_str.lower()), from 0; -1 for the ValueError
day_index(day_str) ==
    IF \E i \in 1..7 : lower(DAYS_TUP[i]) = lower(day_str)
    THEN (CHOOSE i \in 1..7 : lower(DAYS_TUP[i]) = lower(day_str)) - 1
    ELSE -1

\* the loop of _make_alarm_repeat_days_int over the days that are left
RECURSIVE make_days_from(_, _)
make_days_from(repeat_days_tup, repeat_days_int) ==
    IF Len(repeat_days_tup) = 0 THEN [err |-> "", val |-> repeat_days_int]
    ELSE IF day_index(repeat_days_tup[1]) < 0 THEN [err |-> E_DAY, val |-> 0]
    ELSE make_days_from(Tail(repeat_days_tup),
                        or_day(repeat_days_int, day_index(repeat_days_tup[1])))

_make_alarm_repeat_days_int(repeat_days_tup) == make_days_from(repeat_days_tup, 0)

\* an _assert_alarm_dict that takes 24 for an hour and 60 for a minute
assert_alarm_dict_inclusive(d) ==
    IF d.alarm_idx \notin {0, 1, 2} THEN E_ALARM_IDX
    ELSE IF ~(0 <= d.hour_int /\ d.hour_int <= 24) THEN E_HOUR
    ELSE IF ~(0 <= d.min_int /\ d.min_int <= 60) THEN E_MIN
    ELSE ""

\* _assert_alarm_dict(alarm_dict): the exception it raises, or ""
_assert_alarm_dict(d) ==
    IF d.alarm_idx \notin {0, 1, 2} THEN E_ALARM_IDX
    ELSE IF ~(0 <= d.hour_int /\ d.hour_int < 24) THEN E_HOUR
    ELSE IF ~(0 <= d.min_int /\ d.min_int < 60) THEN E_MIN
    ELSE ""

\* alarm_bytes of set_alarm_dict, given the repeat days byte
alarm_bytes(d, repeat_days_int) ==
    <<IntArg(d.alarm_idx), BoolArg(d.enabled_bool), IntArg(d._unknown1_int),
      IntArg(d.hour_int), IntArg(d.min_int), IntArg(d._unknown2_int),
      IntArg(d._unknown3_int), IntArg(repeat_days_int)>>

\* a method of Uwatch2 raises before it calls _send_raw_cmd
raise_unsent(op, args, exc) ==
    /\ outcome' = Raised(op, exc)
    /\ call' = Call(op, args)
    /\ sent' = <<>>
    /\ payload_bytes' = <<>>
    /\ pkg_bytes' = <<>>
    /\ written' = <<>>
    /\ reconnected' = FALSE
    /\ UNCHANGED <<byteorder, _auto_reconnect, _is_connected, _queue, reassembler, pc,
                   query_vars, conc_vars, watch, msg_bytes>>

set_alarm_dict(alarm_dict, fail) ==
    /\ pc = "idle"
    /\ \E days \in {_make_alarm_repeat_days_int(alarm_dict.repeat_days_tup)} :
           LET exc == IF days.err # "" THEN days.err ELSE _assert_alarm_dict(alarm_dict)
           IN  IF exc # ""
               THEN raise_unsent("set_alarm_dict", <<alarm_dict>>, exc)
               ELSE send_cmd("set_alarm_dict", <<alarm_dict>>, 17, "8B",
                             alarm_bytes(alarm_dict, days.val), fail)

\* an alarm as set_alarm makes it: the unknown values are those of an alarm
\* that fires once, or those of an alarm that repeats
Alarm(alarm_idx, enabled_bool, hour_int, min_int, repeat_days_tup) ==
    [alarm_idx |-> alarm_idx, enabled_bool |-> enabled_bool,
     _unknown1_int |-> IF repeat_days_tup = <<>> THEN 0 ELSE 2,
     hour_int |-> hour_int, min_int |-> min_int,
     _unknown2_int |-> IF repeat_days_tup = <<>> THEN 82 ELSE 0,
     _unknown3_int |-> IF repeat_days_tup = <<>> THEN 11 ELSE 0,
     repeat_days_tup |-> repeat_days_tup]

\* repeat days: none, one, some in other case and order, a day twice, all
RepeatDays ==
    {<<>>, <<DAYS_TUP[1]>>, <<<<"s", "A", "T">>, <<"m", "o", "n">>>>,
     <<DAYS_TUP[3], <<"T", "U", "E">>>>,
     DAYS_TUP}

\* repeat days with a string that is no abbreviated day name
BadRepeatDays ==
    {<<<<"S", "u", "n", "d", "a", "y">>>>, <<DAYS_TUP[2], <<"S", "u">>>>, <<<<>>>>,
     <<<<"X", "y", "z">>, DAYS_TUP[7]>>}

\* alarms that are valid, and alarms with one or two values that are not
AlarmDicts ==
    {Alarm(i, TRUE, t[1], t[2], d) :
         i \in {0, 1, 2}, t \in {<<0, 0>>, <<7, 30>>, <<23, 59>>}, d \in RepeatDays}
      \cup {Alarm(0, FALSE, 7, 30, <<>>)}
      \cup {Alarm(i, TRUE, 7, 30, DAYS_TUP) : i \in {-1, 3, 255}}
      \cup {Alarm(1, TRUE, h, 30, <<>>) : h \in {-1, 24, 255}}
      \cup {Alarm(2, TRUE, 7, m, <<>>) : m \in {-1, 60, 255}}
      \cup {Alarm(i, TRUE, 7, 30, d) : i \in {0, 3}, d \in BadRepeatDays}
      \cup {Alarm(3, FALSE, 24, 60, <<>>)}

NextAlarm ==
    \/ _start
    \/ \E d \in AlarmDicts : \E f \in 0..1 : set_alarm_dict(d, f)

SpecAlarm == Init /\ [][NextAlarm]_vars

----------------------------------------------------------------------------
(* The repeat days of an alarm as a byte; each client makes one call *)

\* a method that computes a value and leaves the client as it is
call_function(op, args, o) ==
    /\ pc = "idle"
    /\ call' = Call(op, args)
    /\ outcome' = o
    /\ sent' = <<>>
    /\ UNCHANGED <<byteorder, _auto_reconnect, _is_connected, _queue, reassembler, pc,
                   query_vars, send_vars, conc_vars, watch, msg_bytes>>

call_parse_alarm_repeat_days(repeat_days_int) ==
    call_function("_parse_alarm_repeat_days", <<repeat_days_int>>,
                  ReturnedVals("_parse_alarm_repeat_days", TRUE,
                               <<_parse_alarm_repeat_days(repeat_days_int)>>))

call_make_alarm_repeat_days_int(repeat_days_tup) ==
    LET r == _make_alarm_repeat_days_int(repeat_days_tup)
    IN  call_function("_make_alarm_repeat_days_int", <<repeat_days_tup>>,
                      IF r.err # "" THEN Raised("_make_alarm_repeat_days_int", r.err)
                      ELSE ReturnedVals("_make_alarm_repeat_days_int", TRUE, <<r.val>>))

\* the names of the days with an index in S, in the order of DAYS_TUP
DaysOf(S) == SelectSeq(DAYS_TUP, LAMBDA d : \E i \in S : DAYS_TUP[i + 1] = d)

\* the day names of every set of days, and the other repeat days
DayTups == {DaysOf(S) : S \in SUBSET (0..6)} \cup RepeatDays \cup BadRepeatDays

NextDays ==
    \/ _start
    \/ call = NoCall /\ \E n \in 0..255 : call_parse_alarm_repeat_days(n)
    \/ call = NoCall /\ \E t \in DayTups : call_make_alarm_repeat_days_int(t)

SpecDays == Init /\ [][NextDays]_vars

----------------------------------------------------------------------------
(* Commands and the steps goal *)

NextLib ==
    \/ _start
    \/ \E n \in StepsGoals : \E f \in 0..1 : call_setter(set_steps_goal(n), f)
    \/ \E i \in 1..Len(RawCmds) : \E f \in 0..1 :
           _send_raw_cmd(RawCmds[i][1], RawCmds[i][2], RawCmds[i][3], f)

SpecLib == InitLib /\ [][NextLib]_vars

----------------------------------------------------------------------------
(* The methods that compute a value without the transport, as functions *)

NextFun ==
    \/ _start
    \/ \E b \in Payloads : \E fmt \in UnpackStrs : call_unpack_payload_bytes(b, fmt)

SpecFun == InitLib /\ [][NextFun]_vars

----------------------------------------------------------------------------
(* Settings that are written and read back *)

\* a method of Uwatch2 whose body is one call of _get_raw_cmd(key, None, fmt)
GetRawCmd(op, key, fmt) == [op |-> op, key |-> key, fmt |-> fmt]

set_quick_view(enabled_bool) ==
    SendRawCmd("set_quick_view", <<enabled_bool>>, 24, "B", <<enabled_bool>>)

set_metric_system(imperial_bool) ==
    SendRawCmd("set_metric_system", <<imperial_bool>>, 26, "B", <<imperial_bool>>)

set_watch_face(watch_face_idx) ==
    SendRawCmd("set_watch_face", <<IntArg(watch_face_idx)>>, 25, "B",
               <<IntArg(watch_face_idx + 1)>>)

get_steps_goal == GetRawCmd("get_steps_goal", 38, "<I")

get_quick_view == GetRawCmd("get_quick_view", 40, "B")

get_watch_face == GetRawCmd("get_watch_face", 41, "B")

get_metric_system == GetRawCmd("get_metric_system", 42, "B")

\* the watch answers the get command of a setting with the setting it holds
watch_reports_setting ==
    /\ cmd_key - 16 \in SettingKeys
    /\ \E data \in {watch_reports(watch, cmd_key)} : watch_responds(data)

\* the steps goals that are read back: 0, 3000, 4000, 2^31, 2^32 - 1, and 2^32
RoundTripGoals ==
    <<LongArg(0, 0), LongArg(0, 3000), LongArg(0, 4000), LongArg(32768, 0),
      LongArg(65535, 65535), LongArg(65536, 0)>>

\* a session changes one setting of the watch: the settings other than that
\* of the set command key are as shipped
OnlySetting(key) == \A k \in SettingKeys \ {key} : watch[k] = FactorySettings[k]

\* the set methods that are called: quick view and metric system on and off,
\* the watch faces 0..2, a watch face index past the last byte value, and the
\* steps goals
SetterCalls ==
    <<set_quick_view(BoolArg(TRUE)), set_quick_view(BoolArg(FALSE)),
      set_metric_system(BoolArg(TRUE)), set_metric_system(BoolArg(FALSE)),
      set_watch_face(0), set_watch_face(1), set_watch_face(2), set_watch_face(255)>>
        \o [i \in 1..Len(RoundTripGoals) |-> set_steps_goal(RoundTripGoals[i])]

GetterCalls == {get_steps_goal, get_quick_view, get_watch_face, get_metric_system}

call_getter(c, fail) ==
    /\ pc = "idle"
    /\ send_query(c.op, c.key, c.fmt, fail)

NextSettings ==
    \/ _start
    \/ \E i \in 1..Len(SetterCalls) :
           OnlySetting(SetterCalls[i].key) /\ \E f \in 0..1 : call_setter(SetterCalls[i], f)
    \/ \E c \in GetterCalls : \E f \in 0..1 : call_getter(c, f)
    \/ watch_reports_setting
    \/ _get_response

SpecSettings == InitLib /\ [][NextSettings]_vars

----------------------------------------------------------------------------
(* Notification messages; a str is the sequence of its code points *)

\* the UTF-8 encoding of a code point
utf8(cp) ==
    IF cp < 128 THEN <<cp>>
    ELSE IF cp < 2048 THEN <<192 + (cp \div 64), 128 + (cp % 64)>>
    ELSE IF cp < 65536
    THEN <<224 + (cp \div 4096), 128 + ((cp \div 64) % 64), 128 + (cp % 64)>>
    ELSE <<240 + (cp \div 262144), 128 + ((cp \div 4096) % 64), 128 + ((cp \div 64) % 64),
           128 + (cp % 64)>>

\* msg_str.encode("utf-8"): the encodings of the characters, one after another
RECURSIVE encode_utf8(_)
encode_utf8(msg_str) ==
    IF Len(msg_str) = 0 THEN <<>>
    ELSE IF Len(msg_str) = 1 THEN utf8(msg_str[1])
    ELSE LET half == Len(msg_str) \div 2
         IN  encode_utf8(SubSeq(msg_str, 1, half))
                 \o encode_utf8(SubSeq(msg_str, half + 1, Len(msg_str)))

\* 255 - packet_header(4) - string_header(2)
PartSize == 255 - 4 - 2

\* a _split_utf8 that cuts after n bytes
split_utf8_at_n(b, n) ==
    IF Len(b) <= n THEN <<b, None>>
    ELSE <<SliceTo(b, n), Some(SliceFrom(b, n))>>

\* a split point that falls back to the start of the bytes when byte n is a
\* continuation byte
split_point_at_start(b, n) ==
    IF 128 <= b[n + 1] /\ b[n + 1] < 192 THEN 0 ELSE n

\* the while loop of _split_utf8: n moves back over continuation bytes
RECURSIVE split_point(_, _)
split_point(b, n) ==
    IF 128 <= b[n + 1] /\ b[n + 1] < 192 THEN split_point(b, n - 1) ELSE n

\* _split_utf8(b, n): (b, None), or the bytes before and from the split point
_split_utf8(b, n) ==
    IF Len(b) <= n THEN <<b, None>>
    ELSE LET m == split_point(b, n)
         IN  <<SliceTo(b, m), Some(SliceFrom(b, m))>>

\* the loop of send_message from the bytes in rest on, after the payloads in done and
\* the chunks in chunks were written; fail = 0 when char_write accepts every
\* chunk, else the position, counted from here, of the write that raises
RECURSIVE send_message_loop(_, _, _, _, _, _, _)
send_message_loop(rest, connected, auto, fail, done, chunks, adapter) ==
    LET split == _split_utf8(rest, PartSize)
        msg1_bytes == split[1]
        msg2_bytes == split[2]
        payload == <<65, Len(msg1_bytes)>> \o msg1_bytes
        r == send_packet(payload, connected, auto, fail)
        here == [err |-> r.err, payload |-> payload, pkg |-> r.pkg,
                 sent |-> done \o <<payload>>, written |-> chunks \o r.written,
                 is_connected |-> r.is_connected,
                 reconnected |-> adapter \/ r.reconnected]
    IN  IF r.err # "" \/ msg2_bytes = None THEN here
        ELSE send_message_loop(msg2_bytes[1], r.is_connected, auto,
                               IF fail = 0 THEN 0 ELSE fail - Len(r.written),
                               here.sent, here.written, here.reconnected)

send_message(msg_str, fail) ==
    /\ pc = "idle"
    /\ \E r \in {send_message_loop(encode_utf8(msg_str), _is_connected, _auto_reconnect,
                                     fail, <<>>, <<>>, FALSE)} :
           /\ payload_bytes' = r.payload
           /\ pkg_bytes' = r.pkg
           /\ written' = r.written
           /\ reconnected' = r.reconnected
           /\ _is_connected' = r.is_connected
           /\ outcome' = IF r.err # "" THEN Raised("send_message", r.err)
                         ELSE Returned("send_message")
           /\ sent' = r.sent
    /\ call' = Call("send_message", <<msg_str>>)
    /\ UNCHANGED <<byteorder, _auto_reconnect, _queue, reassembler, pc, query_vars,
                   conc_vars, watch, msg_bytes>>

\* n times the code point cp
Times(n, cp) == [i \in 1..n |-> cp]

\* "a", and characters of one, two, three and four bytes
Characters == {98, 228, 3593, 128512}

\* messages of one packet, of 0 to PartSize bytes; messages of three parts;
\* and messages with each kind of character at and around the end of the
\* first part
Messages ==
    {<<>>, <<65, 228, 3593, 18873, 128512>>, Times(PartSize, 97), Times(PartSize, 228),
     Times(PartSize - 1, 97) \o <<3593>> \o Times(PartSize - 2, 97) \o <<128512>>
         \o Times(5, 98)}
        \cup {Times(k, 97) \o <<cp>> \o Times(j, 99) :
                 k \in (PartSize - 3)..PartSize, cp \in Characters, j \in {0, 2}}

\* writes that raise: none, the first, the last of the first packet of 255
\* bytes and the first of the second packet
MessageFailures == {0, 1, 13, 14}

NextMessage ==
    \/ _start
    \/ \E m \in Messages : \E f \in MessageFailures : send_message(m, f)

SpecMessage == Init /\ [][NextMessage]_vars

----------------------------------------------------------------------------
(* The period getters; each client makes one query *)

\* the last minute of the day
MaxMinutes == 1439

\* a minutes value as two bytes, least and most significant byte first
le16(v) == <<v % 256, v \div 256>>

be16(v) == <<v \div 256, v % 256>>

\* a minutes value in the byte order of the interpreter
native16(v) == IF byteorder = "big" THEN be16(v) ELSE le16(v)

\* the data of a period from minute v
Period(v) == native16(v) \o native16(MaxMinutes - v)

\* the periods the watch reports: to get_dnd_period on a little-endian
\* interpreter every minute of the day as from_min and as to_min, else the
\* first and last minutes of some hours; and a period with negative values
PeriodData ==
    (IF cmd_key = 129 /\ byteorder = "little"
     THEN {Period(v) : v \in 0..MaxMinutes}
     ELSE {Period(v) : v \in {0, 59, 60, 541, 898, 1380, MaxMinutes}})
        \cup {native16(-32227) \o native16(-32126)}

NextPeriod ==
    \/ _start
    \/ call = NoCall /\ \E f \in 0..1 : get_quick_view_enabled_period(f)
    \/ call = NoCall /\ \E f \in 0..1 : get_dnd_period(f)
    \/ pc = "waiting" /\ \E d \in PeriodData : watch_responds(d)
    \/ _get_response

SpecPeriod == InitLib /\ [][NextPeriod]_vars

----------------------------------------------------------------------------
(* Properties of framing and chunking (SpecFrame) *)

RECURSIVE Concat(_)
Concat(seqs) == IF Len(seqs) = 0 THEN <<>> ELSE seqs[1] \o Concat(Tail(seqs))

\* _send_packet has been called on payload_bytes
Framed == outcome.kind # "none"

\* C1: for a payload [k]+a of at most 251 bytes the packet _send_packet builds
\* is FE EA 10, one length byte len(payload)+4, then the payload unchanged.
C1_PacketLayout ==
    (Framed /\ Len(payload_bytes) <= 251)
        => pkg_bytes = <<254, 234, 16, Len(payload_bytes) + 4>> \o payload_bytes

C1_Witness ==
    /\ outcome = Returned("_send_packet")
    /\ Len(payload_bytes) = 251
    /\ payload_bytes[1] = 255
    /\ pkg_bytes[4] = 255

\* the round trip for the argument bytes p = payload_bytes[1:]: the header's
\* length byte is len(p)+5 and _check_and_parse_header gives back len(p)+1
RoundTrip ==
    /\ pkg_bytes # <<>>
    /\ pkg_bytes[4] = (Len(payload_bytes) - 1) + 5
    /\ outcome.op = "_check_and_parse_header"
          => outcome = ReturnedVals("_check_and_parse_header", TRUE,
                                    <<(Len(payload_bytes) - 1) + 1>>)

\* C2 as stated: the round trip holds for every argument string p with len(p) <= 251.
C2_AsStated == (Framed /\ Len(payload_bytes) - 1 <= 251) => RoundTrip

\* C2 amended: the round trip holds for every argument string p with len(p) <= 250,
\* that is for every payload [k]+p of at most 251 bytes.
C2_RoundTrip == (Framed /\ Len(payload_bytes) - 1 <= 250) => RoundTrip

C2_Witness ==
    /\ outcome = ReturnedVals("_check_and_parse_header", TRUE, <<251>>)
    /\ Len(payload_bytes) = 251
    /\ pkg_bytes[4] = 255

\* C4: the writes of a _send_packet call that returns, concatenated in order,
\* are the packet; every write has 1..20 bytes and all but the last have 20;
\* the write loop on an empty buffer writes nothing.
C4_Chunking ==
    /\ read_chunks(<<>>) = <<>>
    /\ outcome = Returned("_send_packet")
          => /\ Concat(written) = pkg_bytes
             /\ \A i \in 1..Len(written) : Len(written[i]) \in 1..20
             /\ \A i \in 1..(Len(written) - 1) : Len(written[i]) = 20

C4_Witness ==
    /\ outcome = Returned("_send_packet")
    /\ Len(pkg_bytes) = 255
    /\ Len(written) = 13
    /\ Len(written[13]) = 15

----------------------------------------------------------------------------
(* Properties of the send path (SpecSend) *)

\* a step in which the idle caller calls _send_packet with a payload too long
\* for the length byte
OverlongSend ==
    /\ pc = "idle"
    /\ outcome'.op = "_send_packet"
    /\ Len(payload_bytes') + 4 > 255
    /\ <<payload_bytes', outcome'>> # <<payload_bytes, outcome>>

\* C3: framing fails whenever len(payload)+4 > 255; then no chunk is written and
\* the connection flag and the reassembler state are as they were.
C3_OverlongFails ==
    [][OverlongSend =>
          /\ outcome' = Raised("_send_packet", "struct.error")
          /\ written' = <<>>
          /\ pkg_bytes' = <<>>
          /\ UNCHANGED <<_is_connected, reassembler, _queue>>]_vars

C3_Witness ==
    /\ outcome = Raised("_send_packet", "struct.error")
    /\ Len(payload_bytes) = 252
    /\ written = <<>>
    /\ ~_is_connected
    /\ _expected_payload_byte_count # None

----------------------------------------------------------------------------
(* Properties of reassembly and of the query loop (Spec) *)

\* a step of _get_response that takes an async-response notification
AsyncFragmentConsumed ==
    /\ pc = "waiting"
    /\ Len(_queue) > 0
    /\ Head(_queue)[1] = "notification"
    /\ Head(_queue)[2] = async_response_handle
    /\ _queue' = Tail(_queue)

\* the fragment that step takes
Fragment == Head(_queue)[3]

Idle == _expected_payload_byte_count = None

\* a fragment that starts with FE EA 10 and has a length byte and a command byte
HasHeader(f) == Len(f) >= 5 /\ SubSeq(f, 1, 3) = <<254, 234, 16>>

\* C5: an Idle reassembler that gets a fragment starting FE EA 10 takes the
\* expected count fragment[3]-5, the command key fragment[4] (the query fails on
\* a key other than its own) and the buffer fragment[5:], and is Accumulating
\* afterwards unless the buffer already has that many bytes.
C5_IdleHeaderParsed ==
    [][(AsyncFragmentConsumed /\ Idle /\ HasHeader(Fragment))
          => LET e == Fragment[4] - 5
                 key == Fragment[5]
                 buf == SubSeq(Fragment, 6, Len(Fragment))
             IN  /\ _acc_payload_bytes' = buf
                 /\ Len(buf) # e => _expected_payload_byte_count' = Some(e)
                 /\ (Len(buf) = e /\ key = cmd_key) => _expected_payload_byte_count' = None
                 /\ key # cmd_key <=> outcome' = Raised("_get_response", "AssertionError")
       ]_vars

C5_Witness ==
    /\ pc = "waiting"
    /\ _expected_payload_byte_count = Some(2)
    /\ _acc_payload_bytes = <<>>

\* the reassembler, holding data of a response that declares n data bytes, emits
\* it when it has n bytes and keeps it otherwise
Emission(data, n) ==
    /\ acc_payload_bytes' = IF Len(data) = n THEN Some(data) ELSE None
    /\ _expected_payload_byte_count' = IF Len(data) = n THEN None ELSE Some(n)
    /\ _acc_payload_bytes' = data

\* the first fragment of a response: its data is fragment[5:]
FirstFragment(own_key) ==
    (AsyncFragmentConsumed /\ Idle /\ HasHeader(Fragment)
        /\ (own_key => Fragment[5] = cmd_key)
        /\ Len(Fragment) - 5 <= Fragment[4] - 5)
        => Emission(SubSeq(Fragment, 6, Len(Fragment)), Fragment[4] - 5)

\* a following fragment that does not carry more than the bytes still missing
NextFragment ==
    (AsyncFragmentConsumed /\ ~Idle
        /\ Len(_acc_payload_bytes) < _expected_payload_byte_count[1]
        /\ Len(_acc_payload_bytes) + Len(Fragment) <= _expected_payload_byte_count[1])
        => Emission(_acc_payload_bytes \o Fragment, _expected_payload_byte_count[1])

\* C6 as stated: whatever command key the first fragment carries, the payload
\* is emitted exactly at the fragment at which the data reaches the declared
\* N-1 bytes, it is the concatenation of the fragments' data, and the
\* reassembler is Idle afterwards.
C6_AsStated == [][FirstFragment(FALSE) /\ NextFragment]_vars

\* C6 amended: the same for a response whose first fragment carries the command
\* key of the waiting query.
C6_Reassembly == [][FirstFragment(TRUE) /\ NextFragment]_vars

C6_Witness ==
    /\ Idle
    /\ acc_payload_bytes = Some(<<11, 184>>)
    /\ _acc_payload_bytes = <<11, 184>>

\* what _handle_async_response does with the fragment of the step
Handled ==
    _handle_async_response(cmd_key, Fragment, _expected_payload_byte_count,
                           _acc_payload_bytes)

\* what a query gives its caller for a completed payload
Unpacked(payload) ==
    LET u == unpack_payload_bytes(payload, unpack_str)
    IN  IF u.err # "" THEN Raised("_get_response", u.err)
        ELSE ReturnedVals("_get_response", u.single, u.vals)

\* C7: whenever a fragment completes reassembly while a query waits, the query
\* unpacks the completed payload and ends at that event, for every declared
\* payload size, the empty data part included.
C7_ReturnsAtCompletion ==
    [][(AsyncFragmentConsumed /\ Handled.err = "" /\ Handled.ret # None)
          => /\ pc' = "idle"
             /\ outcome' = Unpacked(Handled.ret[1])
       ]_vars

\* the count the response in progress declares, with the fragment of the step
DeclaredCount == IF Idle THEN Fragment[4] - 5 ELSE _expected_payload_byte_count[1]

\* C8: _get_response ends only on an event, by raising or by returning the
\* unpacked payload of a response that is complete; while the queue is empty
\* the query stays blocked and nothing changes for it.
C8_ReturnsOnlyComplete ==
    [][/\ (pc = "waiting" /\ pc' # "waiting")
            => /\ Len(_queue) > 0
               /\ _queue' = Tail(_queue)
               /\ pc' = "idle"
               /\ outcome'.op = "_get_response"
               /\ \/ outcome'.kind = "raise"
                  \/ /\ outcome'.kind = "return"
                     /\ AsyncFragmentConsumed
                     /\ Idle'
                     /\ acc_payload_bytes' = Some(_acc_payload_bytes')
                     /\ Len(_acc_payload_bytes') = DeclaredCount
                     /\ unpack_str = "B"
                     /\ outcome'.single
                     /\ outcome'.vals = _acc_payload_bytes'
       /\ (pc = "waiting" /\ Len(_queue) = 0)
            => /\ pc' = "waiting"
               /\ UNCHANGED <<outcome, reassembler, acc_payload_bytes, _is_connected>>
       ]_vars

C8_Witness ==
    /\ pc = "idle"
    /\ outcome = ReturnedVals("_get_response", TRUE, <<184>>)
    /\ Idle
    /\ _queue = <<>>

\* C9: when appending a fragment makes the buffer longer than the expected
\* count, the query fails with WatchError "Received more bytes than expected"
\* and no payload is emitted.
C9_Overrun ==
    [][(AsyncFragmentConsumed /\ ~Idle
          /\ Len(_acc_payload_bytes) + Len(Fragment) > _expected_payload_byte_count[1])
          => /\ pc' = "idle"
             /\ outcome' = Raised("_get_response", E_OVERRUN)
             /\ acc_payload_bytes' = acc_payload_bytes
             /\ _acc_payload_bytes' = _acc_payload_bytes \o Fragment
       ]_vars

C9_Witness ==
    /\ outcome = Raised("_get_response", E_OVERRUN)
    /\ _expected_payload_byte_count = Some(2)
    /\ _acc_payload_bytes = <<11, 184, 11>>
    /\ acc_payload_bytes = None

\* C10: a fragment that does not start with FE EA 10, taken while the
\* reassembler is Idle, makes the query fail with a WatchError; the
\* reassembler is still Idle and its buffer is unchanged.
C10_IdleViolation ==
    [][(AsyncFragmentConsumed /\ Idle /\ SubSeq(Fragment, 1, Min(3, Len(Fragment))) # <<254, 234, 16>>)
          => /\ pc' = "idle"
             /\ outcome' = Raised("_get_response", E_HEADER)
             /\ outcome'.exc \in WatchErrors
             /\ Idle'
             /\ _acc_payload_bytes' = _acc_payload_bytes
       ]_vars

C10_Witness ==
    /\ outcome = Raised("_get_response", E_HEADER)
    /\ Idle
    /\ _acc_payload_bytes = <<11>>

----------------------------------------------------------------------------
(* Properties of the query loop under errors and foreign events (Spec) *)

\* the errors a query reports for a protocol violation, the failed assert of
\* the command key among them
ProtocolErrors == WatchErrors \cup {"AssertionError"}

\* C11: whenever a query ends with a protocol error (bad magic, overrun,
\* unknown notification handle, command-key mismatch), the reassembler is Idle
\* at that moment.
C11_IdleAfterError ==
    [][(pc = "waiting" /\ pc' = "idle" /\ outcome'.kind = "raise"
          /\ outcome'.exc \in ProtocolErrors)
          => Idle'
       ]_vars

\* C12: a first fragment whose command key differs from the key of the waiting
\* query ends the query with a WatchError, and nothing is returned.
C12_KeyMismatchIsWatchError ==
    [][(AsyncFragmentConsumed /\ Idle /\ HasHeader(Fragment) /\ Fragment[5] # cmd_key)
          => /\ pc' = "idle"
             /\ outcome'.kind = "raise"
             /\ outcome'.exc \in WatchErrors
       ]_vars

\* an event as a callback puts it
IsEvent(e) ==
    \/ e = <<"disconnected">>
    \/ Len(e) = 3 /\ e[1] = "notification"

\* C14: the callbacks only append one event at the tail of the queue and touch
\* nothing else, only the waiting query removes, one event at the head, and the
\* reassembler is given the fragment of exactly that event.
C14_QueueOrder ==
    [][/\ \/ _queue' = _queue
          \/ /\ Len(_queue') = Len(_queue) + 1
             /\ SubSeq(_queue', 1, Len(_queue)) = _queue
             /\ IsEvent(_queue'[Len(_queue')])
             /\ UNCHANGED <<reassembler, _is_connected, pc, query_vars, outcome>>
          \/ /\ pc = "waiting"
             /\ Len(_queue) > 0
             /\ _queue' = Tail(_queue)
       /\ AsyncFragmentConsumed
             => /\ _acc_payload_bytes' = Handled.acc
                /\ _expected_payload_byte_count' = Handled.expected
       ]_vars

C14_Witness ==
    /\ pc = "waiting"
    /\ _expected_payload_byte_count = Some(2)
    /\ _acc_payload_bytes = <<11>>
    /\ _queue = <<<<"notification", async_response_handle, <<184>>>>, <<"disconnected">>>>

\* a step of _get_response that takes a disconnect event
DisconnectConsumed ==
    /\ pc = "waiting"
    /\ Len(_queue) > 0
    /\ Head(_queue) = <<"disconnected">>
    /\ _queue' = Tail(_queue)

AccelerometerConsumed ==
    /\ pc = "waiting"
    /\ Len(_queue) > 0
    /\ Head(_queue)[1] = "notification"
    /\ Head(_queue)[2] = accelerometer_handle
    /\ _queue' = Tail(_queue)

\* C17: an accelerometer notification taken by a waiting query does not end the
\* query and leaves the reassembler (count and buffer) exactly as it was.
C17_AccelerometerIgnored ==
    [][AccelerometerConsumed
          => /\ pc' = "waiting"
             /\ outcome' = NoOutcome
             /\ UNCHANGED <<reassembler, acc_payload_bytes, _is_connected>>
       ]_vars

\* an accelerometer notification is next, in the middle of a response whose
\* last fragment waits behind it
C17_Witness ==
    /\ pc = "waiting"
    /\ _expected_payload_byte_count = Some(2)
    /\ _acc_payload_bytes = <<11>>
    /\ _queue = <<<<"notification", accelerometer_handle, <<1, 2>>>>,
                  <<"notification", async_response_handle, <<184>>>>>>

\* a step of _get_response that takes a notification of another handle
UnknownHandleConsumed ==
    /\ pc = "waiting"
    /\ Len(_queue) > 0
    /\ Head(_queue)[1] = "notification"
    /\ Head(_queue)[2] \notin {async_response_handle, accelerometer_handle}
    /\ _queue' = Tail(_queue)

\* queue messages of a type no callback puts
UnknownMsgs == {<<"connected">>, <<"notify", async_response_handle, <<0>>>>, <<"">>}

\* the loop body applied to msg in the current state
StepOn(msg) ==
    get_response_step(msg, cmd_key, unpack_str, _is_connected,
                      _expected_payload_byte_count, _acc_payload_bytes,
                      acc_payload_bytes)

\* C18: a notification of a handle that is neither the async-response nor the
\* accelerometer handle ends the waiting query with a WatchError, and so would
\* a queue message whose type is neither "notification" nor "disconnected".
C18_UnknownEventFails ==
    /\ [](pc = "waiting"
            => \A m \in UnknownMsgs :
                  /\ StepOn(m).done
                  /\ StepOn(m).outcome = Raised("_get_response", E_MSG_TYPE)
                  /\ E_MSG_TYPE \in WatchErrors)
    /\ [][UnknownHandleConsumed
            => /\ pc' = "idle"
               /\ outcome' = Raised("_get_response", E_NOTIFICATION)
               /\ E_NOTIFICATION \in WatchErrors
         ]_vars

C18_Witness ==
    /\ pc = "idle"
    /\ outcome = Raised("_get_response", E_NOTIFICATION)
    /\ _expected_payload_byte_count = Some(2)

\* C20: a query that ends while a response is in progress leaves the
\* reassembler Accumulating, nothing resets it before or when the next query
\* starts, and the next fragment is appended to the old buffer even when it
\* is the header of the next response.
C20_StaleAccumulating ==
    [][/\ (pc = "waiting" /\ pc' = "idle" /\ ~Idle
             /\ ~(AsyncFragmentConsumed
                    /\ Len(_acc_payload_bytes) + Len(Fragment)
                          = _expected_payload_byte_count[1]))
             => UNCHANGED _expected_payload_byte_count
       /\ pc = "idle" => UNCHANGED reassembler
       /\ (AsyncFragmentConsumed /\ ~Idle)
             => /\ _acc_payload_bytes' = _acc_payload_bytes \o Fragment
                /\ \/ UNCHANGED _expected_payload_byte_count
                   \/ /\ Idle'
                      /\ Len(_acc_payload_bytes') = _expected_payload_byte_count[1]
       ]_vars

\* the header of the next response has been appended to the buffer the failed
\* query left
C20_Witness ==
    /\ ~Idle
    /\ _acc_payload_bytes = <<254, 234, 16, 6, 40>>
    /\ outcome = Raised("_get_response", E_OVERRUN)

----------------------------------------------------------------------------
(* Properties of the send path and the callbacks (SpecSend) *)

\* C15: the reassembler changes only in a step of the event-consuming loop;
\* the callbacks change neither the reassembler nor the connection flag, and
\* no step of an idle caller (_send_packet, _send_raw_cmd, the send of a query)
\* changes the reassembler.
C15_OnlyLoopMutates ==
    [][/\ reassembler' # reassembler
             => (pc = "waiting" /\ Len(_queue) > 0 /\ _queue' = Tail(_queue))
       /\ Len(_queue') > Len(_queue) => UNCHANGED <<reassembler, _is_connected>>
       /\ pc = "idle" => UNCHANGED reassembler
       ]_vars

\* a command has been written and an event queued while a response is in progress
C15_Witness ==
    /\ _expected_payload_byte_count = Some(1)
    /\ outcome = Returned("_send_raw_cmd")
    /\ written # <<>>
    /\ Len(_queue) > 0
    /\ _is_connected

\* a step in which an idle caller sends a command
SendStep == pc = "idle" /\ _queue' = _queue

\* C19: whenever a command is sent while the client is not connected, the
\* adapter's reconnect is called before the first chunk is written.
C19_ReconnectBeforeWrite ==
    [][(SendStep /\ ~_is_connected /\ written' # <<>>) => reconnected']_vars

----------------------------------------------------------------------------
(* Properties of concurrent callers (SpecConc) *)

\* thread c is inside a call of the client
InFlight(c) == calls[c].pc # "idle"

\* the chunks of each thread's packet are next to each other on the transport
Contiguous ==
    \A i, j, k \in 1..Len(wire) :
        (i < j /\ j < k /\ wire[i][1] = wire[k][1]) => wire[j][1] = wire[i][1]

\* the fragments a query took begin with the header of a response
OwnResponse(c) == calls[c].got # <<>> => HasHeader(calls[c].got[1])

\* C13: at most one call is in flight on a client at any time, so the chunks of
\* two packets are never interleaved on the transport and no query takes
\* fragments of a response another query began.
C13_OneInFlight ==
    /\ Cardinality({c \in Callers : InFlight(c)}) <= 1
    /\ Contiguous
    /\ \A c \in Callers : OwnResponse(c)

----------------------------------------------------------------------------
(* Argument errors *)

\* the arguments of the last _send_raw_cmd call
RawCall == call.op = "_send_raw_cmd"

\* the number of values differs from the number of fields of the layout
CountDiffers == Len(call.args[3]) # Len(struct_layout(call.args[2]))

\* some value is no int, bool or string of decimal digits
NotAnInt ==
    \E i \in 1..Len(call.args[3]) :
        LET x == call.args[3][i]
        IN  \/ x.t = "NoneType"
            \/ x.t = "str" /\ \E j \in 1..Len(x.v) : ~IsDigit(x.v[j])

\* a value for an unsigned byte or an unsigned 32-bit field lies outside it
OutOfRange ==
    /\ Len(call.args[3]) = 1
    /\ \/ call.args[3][1].t = "int" /\ call.args[3][1].v \in {256, -1}
       \/ call.args[3][1].t = "long" /\ call.args[3][1].v = Long(65536, 0)

\* C21: a _send_raw_cmd call whose values differ in number from the fields of
\* the layout (values for a command without a layout included), or hold a
\* value out of range or a value that is no integer, raises WatchError and
\* hands nothing to the transport
C21_ArgumentErrors ==
    RawCall /\ (CountDiffers \/ NotAnInt \/ OutOfRange)
        => /\ outcome.kind = "raise"
           /\ outcome.exc \in WatchErrors
           /\ written = <<>>
           /\ sent = <<>>

----------------------------------------------------------------------------
(* Unpacking *)

\* the payload and the layout of the last unpack_payload_bytes call
Unpacking == call.op = "unpack_payload_bytes"

\* the number of fields and the number of bytes of a response layout
FieldCount(fmt) ==
    CASE fmt = "B" -> 1 [] fmt = "BB" -> 2 [] fmt = "BBBB" -> 4 [] fmt = "hh" -> 2
      [] fmt = "<I" -> 1

ByteCount(fmt) ==
    CASE fmt = "B" -> 1 [] fmt = "BB" -> 2 [] fmt = "BBBB" -> 4 [] fmt = "hh" -> 4
      [] fmt = "<I" -> 4

\* C22: unpacking a payload whose length is not the sum of the field widths
\* of the layout raises WatchError; a payload of that length gives the single
\* value of a layout of one field and, for a layout of several fields, the
\* tuple of the values in the order of the fields
C22_Unpack ==
    Unpacking =>
        LET p == call.args[1]
            fmt == call.args[2]
        IN  IF Len(p) # ByteCount(fmt)
            THEN outcome.kind = "raise" /\ outcome.exc = E_UNPACK
            ELSE /\ outcome.kind = "return"
                 /\ outcome.single = (FieldCount(fmt) = 1)
                 /\ Len(outcome.vals) = FieldCount(fmt)
                 /\ fmt \in {"B", "BB", "BBBB"} => outcome.vals = p
                 /\ fmt = "hh" =>
                        \A i \in 1..2 :
                            outcome.vals[i] % 256
                                = IF byteorder = "little" THEN p[2 * i - 1] ELSE p[2 * i]
                 /\ fmt = "<I" => outcome.vals[1].lo % 256 = p[1]

\* a payload of four bytes was unpacked as two fields, and a payload of two
\* bytes was refused for that layout
C22_Witness ==
    /\ Unpacking
    /\ call.args[2] = "hh"
    /\ Len(call.args[1]) = 4
    /\ outcome.kind = "return"
    /\ ~outcome.single
    /\ outcome.vals[1] < 0

C22_WitnessError ==
    /\ Unpacking
    /\ call.args[2] = "B"
    /\ Len(call.args[1]) = 2
    /\ outcome.kind = "raise"

----------------------------------------------------------------------------
(* No retry *)

\* what the transport got is the packet, or the packet up to the chunk whose
\* write raised: no chunk was written twice
WrittenOnce ==
    /\ Len(Concat(written)) <= Len(pkg_bytes)
    /\ Concat(written) = SubSeq(pkg_bytes, 1, Len(Concat(written)))

\* C23: within one call each chunk of the packet is written at most once; a
\* call that raises (a failed write, an argument error, a protocol error) is
\* over, with nothing written after an argument error, and while the caller
\* waits for the response nothing is written again
C23_NoRetry ==
    /\ [](WrittenOnce /\ (outcome.kind = "raise" => pc = "idle"))
    /\ [][/\ (SendStep /\ outcome'.exc \in WatchErrors) => written' = <<>>
          /\ pc = "waiting" => written' = written /\ pkg_bytes' = pkg_bytes]_vars

\* the write of the second chunk of a packet raised; and a query ended with
\* a protocol error after its packet was written
C23_Witness ==
    /\ outcome.exc = "BLEError"
    /\ Len(written) = 2
    /\ Len(pkg_bytes) > 2 * ChunkSize

C23_WitnessQuery ==
    /\ outcome.op = "_get_response"
    /\ outcome.exc \in WatchErrors
    /\ written # <<>>

----------------------------------------------------------------------------
(* Steps goal *)

\* the last call was set_steps_goal(n) with n in 0 .. 2^32 - 1
StepsGoalSet ==
    /\ call.op = "set_steps_goal"
    /\ call.args[1].v.hi \in 0..65535
    /\ call.args[1].v.lo \in 0..65535

\* C24: set_steps_goal(n) with n in 0 .. 2^32 - 1 writes FE EA 10 09 16 and
\* the four bytes of n, most significant first, as one chunk; for n = 3000
\* the packet is FE EA 10 09 16 00 00 0B B8
C24_StepsGoalPacket ==
    StepsGoalSet =>
        /\ Len(pkg_bytes) = 9
        /\ SubSeq(pkg_bytes, 1, 5) = <<254, 234, 16, 9, 22>>
        /\ \A i \in 6..9 : pkg_bytes[i] \in 0..255
        /\ 256 * pkg_bytes[6] + pkg_bytes[7] = call.args[1].v.hi
        /\ 256 * pkg_bytes[8] + pkg_bytes[9] = call.args[1].v.lo
        /\ written = <<pkg_bytes>>
        /\ call.args[1].v = Long(0, 3000)
               => pkg_bytes = <<254, 234, 16, 9, 22, 0, 0, 11, 184>>

\* set_steps_goal(2^32 - 1) returned
C24_Witness ==
    /\ StepsGoalSet
    /\ call.args[1].v = Long(65535, 65535)
    /\ outcome.kind = "return"
    /\ written # <<>>

----------------------------------------------------------------------------
(* Periods *)

\* the signed value of two bytes in the byte order of the interpreter
Short(b) ==
    LET msb == IF byteorder = "big" THEN b[1] ELSE b[2]
        lsb == IF byteorder = "big" THEN b[2] ELSE b[1]
    IN  256 * (IF msb >= 128 THEN msb - 256 ELSE msb) + lsb

\* a period getter returns on a response whose data are four bytes
PeriodReturns ==
    /\ call.op \in {"get_quick_view_enabled_period", "get_dnd_period"}
    /\ pc = "waiting"
    /\ pc' = "idle"
    /\ outcome'.kind = "return"

\* the pair a minutes value v is to decode to
HourMin(v, h, m) ==
    /\ h * 60 + m = v
    /\ m \in 0..59
    /\ v \in 0..1439 => h \in 0..23
    /\ v = 541 => h = 9 /\ m = 1
    /\ v = 0 => h = 0 /\ m = 0
    /\ v = 1439 => h = 23 /\ m = 59

\* C25: the period getters return, for the minutes values from_min and
\* to_min of the response, the two pairs (hour, minute) with
\* hour * 60 + minute the value and minute in 0..59: h * 60 + m decodes to
\* (h, m) for h in 0..23 and m in 0..59, 541 to (9, 1), 0 to (0, 0) and 1439
\* to (23, 59)
C25_MinutePairs ==
    [][PeriodReturns =>
          LET data == SliceFrom(Head(_queue)[3], 5)
              r == outcome'.vals
          IN  /\ Len(r) = 4
              /\ HourMin(Short(SubSeq(data, 1, 2)), r[1], r[2])
              /\ HourMin(Short(SubSeq(data, 3, 4)), r[3], r[4])]_vars

\* get_dnd_period returned (9, 1, 14, 58) for the minutes 541 and 898
C25_Witness ==
    /\ call.op = "get_dnd_period"
    /\ outcome.kind = "return"
    /\ outcome.vals = <<9, 1, 14, 58>>

----------------------------------------------------------------------------
(* The reassembler at completion (Spec) *)

\* the fragment of the step brings the accumulated length to the expected count
Completes ==
    /\ AsyncFragmentConsumed
    /\ \/ /\ Idle
          /\ HasHeader(Fragment)
          /\ Fragment[5] = cmd_key
          /\ Len(Fragment) = Fragment[4]
       \/ /\ ~Idle
          /\ Len(_acc_payload_bytes) + Len(Fragment) = _expected_payload_byte_count[1]

\* the payload that step completes
CompletedPayload ==
    IF Idle THEN SubSeq(Fragment, 6, Len(Fragment)) ELSE _acc_payload_bytes \o Fragment

----------------------------------------------------------------------------
(* Settings read back (SpecSettings) *)

\* the setting a set or get method is about, as the key of its set command
SettingOf(op) ==
    CASE op \in {"set_steps_goal", "get_steps_goal"}       -> 22
      [] op \in {"set_quick_view", "get_quick_view"}       -> 24
      [] op \in {"set_watch_face", "get_watch_face"}       -> 25
      [] op \in {"set_metric_system", "get_metric_system"} -> 26
      [] OTHER                                             -> 0

Setters == {"set_steps_goal", "set_quick_view", "set_watch_face", "set_metric_system"}

Getters == {"get_steps_goal", "get_quick_view", "get_watch_face", "get_metric_system"}

\* x, an argument a setter was given or a value a getter returned, is the
\* value of the setting with key k that the watch holds: the steps goal as a
\* number, the watch face as an index from 0, an enabled flag as true or
\* false, which a returned 1 or 0 equals as well
IsSetting(k, x, boxed) ==
    LET w == watch[k]
    IN  CASE k = 22 -> (IF boxed THEN x.v ELSE x)
                           = Long(256 * w[1] + w[2], 256 * w[3] + w[4])
          [] k = 25 -> (IF boxed THEN x.v ELSE x) = w[1] - 1
          [] OTHER  -> /\ w[1] \in {0, 1}
                       /\ IF boxed THEN x.v = (w[1] = 1) ELSE x = w[1]

C27_WitnessFace ==
    /\ call.op = "get_watch_face"
    /\ outcome.kind = "return"
    /\ outcome.vals = <<2>>
    /\ watch[25] = <<3>>


----------------------------------------------------------------------------
(* Messages in parts (SpecMessage) *)

MessageSent == call.op = "send_message" /\ outcome.kind = "return"

\* the message bytes a payload of send_message carries
Part(payload) == SubSeq(payload, 3, Len(payload))

\* a byte of the form 10xxxxxx, which continues a character
Continuation(b) == 128 <= b /\ b < 192

\* the packets of the payloads in sent, written one after another
Packets == Concat([i \in 1..Len(sent) |-> Magic \o <<Len(sent[i]) + 4>> \o sent[i]])

\* C28: send_message sends the UTF-8 bytes of the message in one or more
\* packets: each payload is 0x41, the length of its part and the part; a part
\* has at most 249 bytes and starts at the first byte of a character; the
\* parts in order are the bytes of the message; and the length byte of each
\* packet's header is at most 255.
C28_MessageParts ==
    MessageSent =>
        /\ Len(sent) >= 1
        /\ \A i \in 1..Len(sent) :
               /\ Len(sent[i]) >= 2
               /\ sent[i][1] = 65
               /\ sent[i][2] = Len(Part(sent[i]))
               /\ Len(Part(sent[i])) <= 249
               /\ Part(sent[i]) # <<>> => ~Continuation(Part(sent[i])[1])
               /\ Len(sent[i]) + 4 <= 255
        /\ Concat([i \in 1..Len(sent) |-> Part(sent[i])]) = encode_utf8(call.args[1])
        /\ Concat(written) = Packets

\* a message whose 249th and 250th bytes are one character was sent: the
\* first part ends before that character
C28_Witness ==
    /\ MessageSent
    /\ call.args[1] = Times(248, 97) \o <<228>> \o Times(2, 99)
    /\ Len(sent) = 2
    /\ Len(Part(sent[1])) = 248
    /\ Part(sent[2]) = <<195, 164, 99, 99>>

\* the empty message was sent as one packet without message bytes
C28_WitnessEmpty ==
    /\ MessageSent
    /\ call.args[1] = <<>>
    /\ sent = <<<<65, 0>>>>


----------------------------------------------------------------------------
(* Alarms that are set (SpecAlarm) *)

AlarmCall == call.op = "set_alarm_dict"

\* the same letter, in either case
SameLetter(a, b) ==
    a = b \/ \E i \in 1..Len(UpperCase) : {a, b} = {UpperCase[i], LowerCase[i]}

\* str spells one of the seven abbreviated day names, in any case
IsDayName(str) ==
    \E k \in 1..7 :
        /\ Len(str) = Len(DAYS_TUP[k])
        /\ \A j \in 1..Len(str) : SameLetter(str[j], DAYS_TUP[k][j])

AlarmIsValid(d) ==
    /\ d.alarm_idx \in 0..2
    /\ d.hour_int \in 0..23
    /\ d.min_int \in 0..59
    /\ \A i \in 1..Len(d.repeat_days_tup) : IsDayName(d.repeat_days_tup[i])

\* C29: set_alarm_dict raises WatchError and writes nothing when alarm_idx is
\* not 0, 1 or 2, hour_int is outside 0..23, min_int is outside 0..59 or a
\* repeat day is not an abbreviated day name in any case; when all are valid
\* it sends exactly one command, 0x11 with 8 argument bytes, in one packet.
C29_AlarmValidation ==
    AlarmCall =>
        IF AlarmIsValid(call.args[1])
        THEN /\ Len(sent) = 1
             /\ sent[1][1] = 17
             /\ Len(sent[1]) = 1 + 8
             /\ outcome.exc \notin WatchErrors
             /\ outcome.kind = "return" => Concat(written) = Magic \o <<13>> \o sent[1]
        ELSE /\ outcome.kind = "raise"
             /\ outcome.exc \in WatchErrors
             /\ sent = <<>>
             /\ written = <<>>

\* the alarm 1 at 23:59 on every day was sent
C29_Witness ==
    /\ AlarmCall
    /\ outcome.kind = "return"
    /\ sent = <<<<17, 1, 1, 2, 23, 59, 0, 0, 127>>>>

\* an alarm at 24:30 was refused
C29_WitnessHour ==
    /\ AlarmCall
    /\ call.args[1].hour_int = 24
    /\ call.args[1].alarm_idx = 1
    /\ outcome = Raised("set_alarm_dict", E_HOUR)
    /\ written = <<>>


----------------------------------------------------------------------------
(* The repeat days codec (SpecDays) *)

\* the indexes, from Sun = 0, of the days that the strings in tup name
DaysNamed(tup) ==
    {i \in 0..6 : \E j \in 1..Len(tup) :
        /\ Len(tup[j]) = Len(DAYS_TUP[i + 1])
        /\ \A k \in 1..Len(tup[j]) : SameLetter(tup[j][k], DAYS_TUP[i + 1][k])}

\* the indexes of the bits that are set in the low seven bits of n
BitsSet(n) == {i \in 0..6 : (n \div 2 ^ i) % 2 = 1}

MadeInt == call.op = "_make_alarm_repeat_days_int" /\ outcome.kind = "return"

ParsedDays == call.op = "_parse_alarm_repeat_days" /\ outcome.kind = "return"

\* C30: for day names that are all valid, _make_alarm_repeat_days_int returns
\* a value in 0..127 whose bit i is set exactly when day i (Sun = 0 .. Sat =
\* 6) is named, and _parse_alarm_repeat_days of that value returns exactly
\* those days in Sun..Sat order; and for every n in 0..127 the parsed days of
\* n are the days of its bits and make n again.
C30_RepeatDaysCodec ==
    /\ (call.op = "_make_alarm_repeat_days_int"
            /\ \A j \in 1..Len(call.args[1]) : IsDayName(call.args[1][j]))
           => /\ MadeInt
              /\ outcome.vals[1] \in 0..127
              /\ BitsSet(outcome.vals[1]) = DaysNamed(call.args[1])
              /\ _parse_alarm_repeat_days(outcome.vals[1]) = DaysOf(DaysNamed(call.args[1]))
    /\ (ParsedDays /\ call.args[1] \in 0..127)
           => /\ outcome.vals[1] = DaysOf(BitsSet(call.args[1]))
              /\ _make_alarm_repeat_days_int(outcome.vals[1])
                     = [err |-> "", val |-> call.args[1]]

\* Tue named twice made 4
C30_Witness ==
    /\ MadeInt
    /\ call.args[1] = <<DAYS_TUP[3], <<"T", "U", "E">>>>
    /\ outcome.vals = <<4>>

\* 65 was parsed to Sun and Sat
C30_WitnessParse ==
    /\ ParsedDays
    /\ call.args[1] = 65
    /\ outcome.vals = <<<<DAYS_TUP[1], DAYS_TUP[7]>>>>

----------------------------------------------------------------------------
(* The auto_reconnect argument (SpecSend) *)

\* a step in which _send_packet found the flag false and called _reconnect
ReconnectStep ==
    /\ SendStep
    /\ ~_is_connected
    /\ written' # <<>>

\* C37: whatever auto_reconnect argument the client was constructed with (None,
\* False or True), the stored _auto_reconnect is true; _reconnect therefore never
\* calls the adapter's reconnect, and a _send_packet that finds the connection
\* flag false only sets it to true.
C37_AutoReconnectAlwaysOn ==
    /\ [](_auto_reconnect = TRUE /\ reconnected = FALSE)
    /\ [][ReconnectStep => (_is_connected' /\ ~reconnected')]_vars

\* a command has been written after a query that ended with an error: the flag
\* is true and the adapter's reconnect was not called
C37_Witness ==
    /\ call.op = "_send_raw_cmd"
    /\ outcome.kind = "return"
    /\ written # <<>>
    /\ _is_connected
    /\ ~reconnected
    /\ cmd_key = 40
    /\ _expected_payload_byte_count # None

----------------------------------------------------------------------------
(* A completed payload that does not fit the response layout (Spec) *)

\* the step completes a response whose payload the layout of the waiting query
\* cannot unpack
CannotUnpack ==
    /\ Completes
    /\ Handled.err = ""
    /\ unpack_payload_bytes(CompletedPayload, unpack_str).err # ""

\* C38: when the completed payload of a query cannot be unpacked with the
\* response layout, the query fails with WatchError at that event and the
\* reassembler is Idle, so the next first fragment is parsed as a header.
C38_UnpackFailure ==
    [][CannotUnpack
          => /\ pc' = "idle"
             /\ outcome'.kind = "raise"
             /\ outcome'.exc = E_UNPACK
             /\ outcome'.exc \in WatchErrors
             /\ Idle'
       ]_vars

----------------------------------------------------------------------------
(* First fragments cut short (Spec) *)

\* a fragment that starts with FE EA 10 and lacks the length byte or the
\* command-key byte
ShortHeader(f) == Len(f) \in 3..4 /\ SubSeq(f, 1, 3) = Magic

\* C34: a first fragment that starts with FE EA 10 but has fewer than 5 bytes
\* ends the query with a WatchError, and the reassembler is still Idle.
C34_ShortHeaderIsWatchError ==
    [][(AsyncFragmentConsumed /\ Idle /\ ShortHeader(Fragment))
          => /\ pc' = "idle"
             /\ outcome'.kind = "raise"
             /\ outcome'.exc \in WatchErrors
             /\ Idle'
       ]_vars

----------------------------------------------------------------------------
(* The accumulated length while a response is in progress (Spec) *)

\* C32: between any two queue events, whenever the reassembler is Accumulating
\* the accumulated length is at least 0 and below the expected byte count,
\* after sequences of fragments that ended in an error too.
C32_AccumulatingBound ==
    ~Idle => /\ 0 <= Len(_acc_payload_bytes)
             /\ Len(_acc_payload_bytes) < _expected_payload_byte_count[1]

----------------------------------------------------------------------------
(* A response that arrives cut into fragments *)

\* the bytes of a response up to and including its command key
HeaderLen == 5

\* the ways of cutting a byte stream into non-empty in-order fragments, the
\* first of at least `first` bytes
RECURSIVE Cuts(_, _)
Cuts(stream, first) ==
    IF stream = <<>> THEN {<<>>}
    ELSE UNION {{<<SliceTo(stream, k)>> \o rest : rest \in Cuts(SliceFrom(stream, k), 1)} :
                   k \in first..Len(stream)}

\* the transport delivers the response to the waiting query in fragments: one
\* call of data_callback per fragment, in order
watch_reports_in_fragments ==
    /\ pc = "waiting"
    /\ _queue = <<>>
    /\ _expected_payload_byte_count = None
    /\ cmd_key - 16 \in SettingKeys
    /\ \E cut \in Cuts(Response(cmd_key, watch_reports(watch, cmd_key)), HeaderLen) :
           _queue' = [i \in 1..Len(cut) |-> <<"notification", async_response_handle, cut[i]>>]
    /\ UNCHANGED <<byteorder, _auto_reconnect, _is_connected, reassembler, pc, query_vars,
                   send_vars, outcome, conc_vars, lib_vars>>

\* a client that sets one setting and then makes one query
NextCut ==
    \/ _start
    \/ \E i \in 1..Len(SetterCalls) : call = NoCall /\ call_setter(SetterCalls[i], 0)
    \/ \E c \in GetterCalls : cmd_key = 0 /\ call_getter(c, 0)
    \/ watch_reports_in_fragments
    \/ _get_response

SpecCut == Init /\ [][NextCut]_vars

\* the query of a getter has ended
QueryEnded == call.op \in Getters /\ pc = "idle"

\* C33: for a well-formed response stream (header, command key, data) the
\* payload the query returns is the same for every way of cutting the stream
\* into in-order fragments whose first holds the header and the command key:
\* the query ends at the last fragment and returns the unpacked data.
C33_FragmentationIndependence ==
    /\ QueryEnded =>
           outcome = method_return(call.op, Unpacked(watch_reports(watch, cmd_key)))
    /\ (pc = "waiting" /\ _queue = <<>>) => (Idle /\ acc_payload_bytes = None)

\* the steps goal 3000 has been read back from a response in fragments
C33_Witness ==
    /\ QueryEnded
    /\ call.op = "get_steps_goal"
    /\ outcome.kind = "return"
    /\ outcome.vals = <<Long(0, 3000)>>
    /\ _acc_payload_bytes = <<184, 11, 0, 0>>

----------------------------------------------------------------------------
(* Events that arrive while no query waits (SpecSend) *)

\* the queue after the step is the queue before it, or that with one event
\* more at its tail
QueueKept ==
    \/ _queue' = _queue
    \/ /\ Len(_queue') = Len(_queue) + 1
       /\ SubSeq(_queue', 1, Len(_queue)) = _queue

\* C35: a fire-and-forget command removes no event from the queue: while no
\* query waits, and in the step that sends a query's command, every event that
\* arrived stays in the queue in arrival order, and the first event the next
\* query takes is the oldest of them, which was put before the command of the
\* query was written.
C35_QueueSurvivesCommands ==
    [][/\ pc = "idle" => QueueKept
       /\ (pc = "waiting" /\ ~QueueKept) => (Len(_queue) > 0 /\ _queue' = Tail(_queue))
       ]_vars

\* a fire-and-forget command has been written and the queue holds a fragment
\* and a disconnect event for the next query to take
C35_Witness ==
    /\ pc = "idle"
    /\ call.op = "_send_raw_cmd"
    /\ outcome.kind = "return"
    /\ written # <<>>
    /\ _queue = <<<<"notification", async_response_handle, Magic \o <<6, 42>>>>,
                  <<"disconnected">>>>

----------------------------------------------------------------------------
(* The connection flag (SpecSend) *)

\* C36: every chunk _send_packet writes is written while _is_connected is true;
\* the flag becomes false only when a waiting query consumes a 'disconnected'
\* event, and becomes true again only in _connect or in the _reconnect of a
\* _send_packet.
C36_ConnectedWhileWriting ==
    [][/\ (SendStep /\ written' # <<>>) => _is_connected'
       /\ (_is_connected /\ ~_is_connected') => DisconnectConsumed
       /\ (~_is_connected /\ _is_connected') => (pc = "new" \/ ReconnectStep)
       ]_vars

\* a packet has been written, with the flag true, by a client one of whose
\* queries ended in an error
C36_Witness ==
    /\ call.op = "_send_packet"
    /\ outcome.kind = "return"
    /\ written # <<>>
    /\ _is_connected
    /\ cmd_key = 40
    /\ _expected_payload_byte_count # None

----------------------------------------------------------------------------
(* The loop of send_message, one iteration per step *)

\* send_message up to its loop: the message is encoded (line 54)
send_message_begin(msg_str) ==
    /\ pc = "idle"
    /\ pc' = "sending"
    /\ msg_bytes' = Some(encode_utf8(msg_str))
    /\ call' = Call("send_message", <<msg_str>>)
    /\ sent' = <<>>
    /\ payload_bytes' = <<>>
    /\ pkg_bytes' = <<>>
    /\ written' = <<>>
    /\ reconnected' = FALSE
    /\ outcome' = NoOutcome
    /\ UNCHANGED <<byteorder, _auto_reconnect, _is_connected, _queue, reassembler,
                   query_vars, conc_vars, watch>>

\* one iteration of the loop (lines 56-64): split, send the first part, and go
\* on with the rest unless there is none; fail is the position of the write of
\* this packet that raises, 0 for none
send_message_iteration(fail) ==
    /\ pc = "sending"
    /\ \E split \in {_split_utf8(msg_bytes[1], PartSize)} :
       \E payload \in {<<65, Len(split[1])>> \o split[1]} :
       \E r \in {send_packet(payload, _is_connected, _auto_reconnect, fail)} :
           /\ payload_bytes' = payload
           /\ pkg_bytes' = r.pkg
           /\ written' = written \o r.written
           /\ reconnected' = (reconnected \/ r.reconnected)
           /\ _is_connected' = r.is_connected
           /\ sent' = Append(sent, payload)
           /\ IF r.err # ""
              THEN /\ outcome' = Raised("send_message", r.err)
                   /\ pc' = "idle"
                   /\ msg_bytes' = None
              ELSE IF split[2] = None
              THEN /\ outcome' = Returned("send_message")
                   /\ pc' = "idle"
                   /\ msg_bytes' = None
              ELSE /\ outcome' = NoOutcome
                   /\ pc' = "sending"
                   /\ msg_bytes' = split[2]
    /\ UNCHANGED <<byteorder, _auto_reconnect, _queue, reassembler, query_vars, conc_vars,
                   call, watch>>

\* writes of a packet that raise: none, the first, and the last of a packet
\* of 255 bytes
IterationFailures == {0, 1, 13}

\* longest of the messages of one short packet
MaxShortMessage == 24

\* messages of one packet, from the empty message on; a message of 249
\* two-byte characters and one of three parts; and messages with a one-, two-,
\* three- or four-byte character across the end of the first part, the
\* four-byte one at each of its offsets
LoopMessages ==
    {Times(k, 97) : k \in 0..MaxShortMessage}
        \cup {<<65, 228, 3593, 18873, 128512>>, Times(PartSize, 228),
              Times(PartSize - 1, 97) \o <<3593>> \o Times(PartSize - 2, 97) \o <<128512>>
                  \o Times(5, 98)}
        \cup {Times(PartSize - 1, 97) \o <<cp>> \o Times(2, 99) : cp \in Characters}
        \cup {Times(k, 97) \o <<128512>> \o Times(2, 99) : k \in (PartSize - 3)..PartSize}

\* one message per client
NextLoop ==
    \/ _start
    \/ call = NoCall /\ \E m \in LoopMessages : send_message_begin(m)
    \/ \E f \in IterationFailures : send_message_iteration(f)

\* the caller's thread runs the loop on: an iteration that can be made is made
SpecLoop ==
    /\ Init
    /\ [][NextLoop]_vars
    /\ WF_vars(\E f \in IterationFailures : send_message_iteration(f))

\* a step that is an iteration of the loop
Iteration == pc = "sending" /\ sent' # sent

\* what an iteration does: the part it sends is non-empty (always, or unless
\* the message is empty), the bytes that remain for the next iteration are
\* fewer, and the split index of more than 249 bytes is at least 1
LoopProgress(always) ==
    Iteration
        => /\ \/ Part(payload_bytes') # <<>>
              \/ ~always /\ call.args[1] = <<>>
           /\ pc' = "sending" => Len(msg_bytes'[1]) < Len(msg_bytes[1])
           /\ Len(msg_bytes[1]) > PartSize => split_point(msg_bytes[1], PartSize) >= 1

\* the call ends
Terminates == (pc = "sending") ~> (pc = "idle")

\* C39 as stated: send_message terminates, every iteration sending a non-empty
\* part and strictly shortening the remaining bytes, the split index never
\* below 1
C39_AsStated == [][LoopProgress(TRUE)]_vars /\ Terminates

\* C39: send_message terminates for every message string: every iteration
\* sends a non-empty part, except the one iteration of an empty message, whose
\* part is empty; an iteration that is followed by another strictly shortens
\* the remaining bytes, and _split_utf8 never moves its split index below 1
\* for a valid UTF-8 encoding of more than 249 bytes.
C39_Termination == [][LoopProgress(FALSE)]_vars /\ Terminates

\* the loop is in its third iteration: two parts were sent and bytes remain
C39_Witness ==
    /\ pc = "sending"
    /\ Len(sent) = 2
    /\ Len(Part(sent[1])) = 248
    /\ Len(Part(sent[2])) = 249
    /\ msg_bytes # None
    /\ Len(msg_bytes[1]) = 10

----------------------------------------------------------------------------
(* The Do Not Disturb period and the sedentary reminder period *)

set_dnd_period(from_hour_int, from_min_int, to_hour_int, to_min_int) ==
    SendRawCmd("set_dnd_period", <<from_hour_int, from_min_int, to_hour_int, to_min_int>>,
               113, "BBBB", <<from_hour_int, from_min_int, to_hour_int, to_min_int>>)

set_sedentary_reminder_period(from_hour_int, from_min_int, to_hour_int, to_min_int) ==
    SendRawCmd("set_sedentary_reminder_period",
               <<from_hour_int, from_min_int, to_hour_int, to_min_int>>,
               113, "BBBB", <<from_hour_int, from_min_int, to_hour_int, to_min_int>>)

\* get_dnd_period as the call of _get_raw_cmd it makes
get_dnd_period_query == GetRawCmd("get_dnd_period", 129, "hh")

get_sedentary_reminder_period == GetRawCmd("get_sedentary_reminder_period", 129, "hh")

\* the periods that are set: those of test_lib.py, the last minute of the
\* day, and an hour no byte holds
PeriodArgs ==
    {<<11, 1, 9, 2>>, <<22, 0, 7, 59>>, <<0, 0, 0, 0>>, <<23, 59, 23, 59>>, <<9, 1, 14, 58>>,
     <<0, 0, 23, 59>>, <<256, 0, 0, 0>>}

\* the periods the watch reports
ReportedPeriods == {Period(v) : v \in {0, 541, 898, MaxMinutes}}

\* a client that sets periods and makes one query
NextReminder ==
    \/ _start
    \/ \E t \in PeriodArgs : \E f \in 0..1 :
           call_setter(set_dnd_period(IntArg(t[1]), IntArg(t[2]), IntArg(t[3]), IntArg(t[4])),
                       f)
    \/ \E t \in PeriodArgs : \E f \in 0..1 :
           call_setter(set_sedentary_reminder_period(IntArg(t[1]), IntArg(t[2]), IntArg(t[3]),
                                                     IntArg(t[4])), f)
    \/ \E c \in {get_dnd_period_query, get_sedentary_reminder_period} :
           cmd_key = 0 /\ call_getter(c, 0)
    \/ pc = "waiting" /\ \E d \in ReportedPeriods : watch_responds(d)
    \/ _get_response

SpecReminder == Init /\ [][NextReminder]_vars

\* the payload set_dnd_period hands to _send_packet for the arguments of the
\* current call
DndPayload ==
    LET c == set_dnd_period(call.args[1], call.args[2], call.args[3], call.args[4])
    IN  raw_cmd_payload(c.key, c.pack_str, c.arg_tup)

\* C40: distinct settings use distinct command keys: the packet that
\* set_sedentary_reminder_period writes is never byte for byte the packet that
\* set_dnd_period writes for the same four arguments, and
\* get_sedentary_reminder_period never issues the query key of get_dnd_period.
C40_DistinctCommandKeys ==
    /\ (call.op = "set_sedentary_reminder_period" /\ sent # <<>>)
           => sent[1] # DndPayload.bytes
    /\ (call.op = "get_sedentary_reminder_period" /\ sent # <<>>)
           => sent[1][1] # get_dnd_period_query.key

----------------------------------------------------------------------------
(* set_alarm: read the alarms, write one, read them again (SpecSetAlarm) *)

E_INDEX == "IndexError: tuple index out of range"

\* d_(a) of get_alarm_tup: the alarm of eight values of the response
d_(a) ==
    [alarm_idx |-> a[1], enabled_bool |-> a[2] # 0, _unknown1_int |-> a[3],
     hour_int |-> a[4], min_int |-> a[5], _unknown2_int |-> a[6],
     _unknown3_int |-> a[7], repeat_days_tup |-> _parse_alarm_repeat_days(a[8])]

\* what get_alarm_tup makes of the 24 values _get_raw_cmd returned
get_alarm_tup(vals) == [i \in 1..3 |-> d_(SubSeq(vals, 8 * i - 7, 8 * i))]

\* tup[idx] of a Python tuple: an index below zero counts from the end; the
\* position from 1, or 0 for the IndexError
py_index(n, idx) ==
    IF 0 <= idx /\ idx < n THEN idx + 1
    ELSE IF -n <= idx /\ idx < 0 THEN n + idx + 1
    ELSE 0

\* the alarm set_alarm hands to set_alarm_dict: the values given replace those
\* read from the watch, the repeat days always do
set_alarm_updates(alarm_dict, alarm_idx, enabled_bool, hour_int, min_int, repeat_days_tup) ==
    Alarm(alarm_idx,
          IF enabled_bool # None THEN enabled_bool[1] ELSE alarm_dict.enabled_bool,
          IF hour_int # None THEN hour_int[1] ELSE alarm_dict.hour_int,
          IF min_int # None THEN min_int[1] ELSE alarm_dict.min_int,
          repeat_days_tup)

\* a set_alarm_dict that sends the alarm without _assert_alarm_dict
alarm_dict_unchecked(alarm_dict) ==
    LET days == _make_alarm_repeat_days_int(alarm_dict.repeat_days_tup)
    IN  IF days.err # "" THEN [err |-> days.err, arg_tup |-> <<>>]
        ELSE [err |-> "", arg_tup |-> alarm_bytes(alarm_dict, days.val)]

\* set_alarm_dict up to its call of _send_raw_cmd: the exception it raises, or
\* the eight values of the command
alarm_dict_cmd(alarm_dict) ==
    LET days == _make_alarm_repeat_days_int(alarm_dict.repeat_days_tup)
        exc == IF days.err # "" THEN days.err ELSE _assert_alarm_dict(alarm_dict)
    IN  IF exc # "" THEN [err |-> exc, arg_tup |-> <<>>]
        ELSE [err |-> "", arg_tup |-> alarm_bytes(alarm_dict, days.val)]

\* set_alarm from the return of its first get_alarm_tup to the wait of the
\* second: the commands it sends, and how it ends or waits
set_alarm_writes(alarm_bytes_read, args, connected, auto, fail1, fail2) ==
    LET pos == py_index(3, args[1])
        cmd == alarm_dict_cmd(set_alarm_updates(get_alarm_tup(alarm_bytes_read)[pos],
                                                args[1], args[2], args[3], args[4], args[5]))
        c == send_raw_cmd(17, "8B", cmd.arg_tup, connected, auto, fail1)
        q == send_raw_cmd(33, "", <<>>, c.is_connected, auto, fail2)
        unsent == [err |-> "", sent |-> <<>>, is_connected |-> connected,
                   last |-> [payload |-> <<>>, pkg |-> <<>>, written |-> <<>>,
                             reconnected |-> FALSE]]
    IN  IF pos = 0 THEN [unsent EXCEPT !.err = E_INDEX]
        ELSE IF cmd.err # "" THEN [unsent EXCEPT !.err = cmd.err]
        ELSE IF c.err # ""
        THEN [err |-> c.err, sent |-> IF c.called THEN <<c.payload>> ELSE <<>>,
              is_connected |-> c.is_connected,
              last |-> [payload |-> c.payload, pkg |-> c.pkg, written |-> c.written,
                        reconnected |-> c.reconnected]]
        ELSE [err |-> q.err, sent |-> <<c.payload>> \o (IF q.called THEN <<q.payload>> ELSE <<>>),
              is_connected |-> q.is_connected,
              last |-> [payload |-> q.payload, pkg |-> q.pkg, written |-> q.written,
                        reconnected |-> q.reconnected]]

\* set_alarm(alarm_idx, enabled_bool, hour_int, min_int, *repeat_days_tup) up
\* to the wait of its first get_alarm_tup
set_alarm(args, fail) ==
    /\ pc = "idle"
    /\ \E r \in {send_raw_cmd(33, "", <<>>, _is_connected, _auto_reconnect, fail)} :
           /\ payload_bytes' = r.payload
           /\ pkg_bytes' = r.pkg
           /\ written' = r.written
           /\ reconnected' = r.reconnected
           /\ _is_connected' = r.is_connected
           /\ IF r.err # ""
              THEN /\ outcome' = Raised("set_alarm", r.err)
                   /\ pc' = "idle"
                   /\ UNCHANGED query_vars
              ELSE /\ outcome' = NoOutcome
                   /\ pc' = "waiting"
                   /\ cmd_key' = 33
                   /\ unpack_str' = "24B"
                   /\ acc_payload_bytes' = None
           /\ sent' = IF r.called THEN <<r.payload>> ELSE <<>>
           /\ call' = Call("set_alarm", args)
           /\ UNCHANGED <<byteorder, _auto_reconnect, _queue, reassembler, conc_vars, watch,
                          msg_bytes>>

\* set_alarm takes the next event off the queue in the _get_response of its
\* first or of its second get_alarm_tup; when the first returns the alarms it
\* goes on to set_alarm_dict and to the second get_alarm_tup
set_alarm_get_response(fail1, fail2) ==
    /\ pc = "waiting"
    /\ call.op = "set_alarm"
    /\ Len(_queue) > 0
    /\ \E r \in {get_response_step(Head(_queue), cmd_key, unpack_str, _is_connected,
                                   _expected_payload_byte_count, _acc_payload_bytes,
                                   acc_payload_bytes)} :
           /\ _queue' = Tail(_queue)
           /\ _expected_payload_byte_count' = r.expected
           /\ _acc_payload_bytes' = r.acc
           /\ IF ~(r.done /\ r.outcome.kind = "return" /\ Len(sent) = 1)
              THEN /\ _is_connected' = r.is_connected
                   /\ acc_payload_bytes' = r.local
                   /\ outcome' = IF r.done /\ r.outcome.kind = "return"
                                 THEN Returned("set_alarm") ELSE r.outcome
                   /\ pc' = IF r.done THEN "idle" ELSE "waiting"
                   /\ UNCHANGED <<cmd_key, unpack_str, send_vars, sent>>
              ELSE \E w \in {set_alarm_writes(r.outcome.vals, call.args, r.is_connected,
                                              _auto_reconnect, fail1, fail2)} :
                       /\ _is_connected' = w.is_connected
                       /\ sent' = sent \o w.sent
                       /\ IF w.sent = <<>>
                          THEN UNCHANGED send_vars
                          ELSE /\ payload_bytes' = w.last.payload
                               /\ pkg_bytes' = w.last.pkg
                               /\ written' = w.last.written
                               /\ reconnected' = w.last.reconnected
                       /\ IF w.err # ""
                          THEN /\ outcome' = Raised("set_alarm", w.err)
                               /\ pc' = "idle"
                               /\ acc_payload_bytes' = r.local
                          ELSE /\ outcome' = NoOutcome
                               /\ pc' = "waiting"
                               /\ acc_payload_bytes' = None
                       /\ UNCHANGED <<cmd_key, unpack_str>>
    /\ UNCHANGED <<byteorder, _auto_reconnect, conc_vars, call, watch, msg_bytes>>

\* the calls of set_alarm: every value given; only the repeat days given; no
\* value given; indexes past the alarms and below zero; an hour and a day
\* that are not valid
AlarmArgs ==
    <<<<0, Some(TRUE), Some(9), Some(30), <<>>>>,
      <<1, None, None, None, <<DAYS_TUP[3], DAYS_TUP[4]>>>>,
      <<2, None, None, None, <<>>>>,
      <<2, Some(FALSE), Some(23), Some(59), DAYS_TUP>>,
      <<3, Some(TRUE), Some(9), Some(30), <<>>>>,
      <<-1, Some(TRUE), Some(7), Some(0), <<>>>>,
      <<-4, None, None, None, <<>>>>,
      <<0, Some(TRUE), Some(24), Some(0), <<>>>>,
      <<1, Some(TRUE), Some(7), Some(30), <<<<"S", "u", "n", "d", "a", "y">>>>>>>>

\* the alarms the watch reports: as shipped; one alarm set at 7:30 and one
\* repeating; the third alarm with an hour of 24; and a response one value short
AlarmReports ==
    {<<0, 0, 0, 0, 0, 0, 0, 0,  1, 0, 0, 0, 0, 0, 0, 0,  2, 0, 0, 0, 0, 0, 0, 0>>,
     <<0, 1, 0, 7, 30, 82, 11, 0,  1, 1, 2, 6, 0, 0, 0, 62,  2, 0, 0, 0, 0, 0, 0, 0>>,
     <<0, 0, 0, 0, 0, 0, 0, 0,  1, 0, 0, 0, 0, 0, 0, 0,  2, 1, 0, 24, 0, 82, 11, 0>>,
     <<0, 0, 0, 0, 0, 0, 0, 0,  1, 0, 0, 0, 0, 0, 0, 0,  2, 0, 0, 0, 0, 0, 0>>}

\* the watch answers get_alarm_tup (0x21)
watch_reports_alarms ==
    /\ cmd_key = 33
    /\ \E data \in AlarmReports : watch_responds(data)

NextSetAlarm ==
    \/ _start
    \/ \E i \in 1..Len(AlarmArgs) : \E f \in 0..1 : call = NoCall /\ set_alarm(AlarmArgs[i], f)
    \/ watch_reports_alarms
    \/ pc = "waiting" /\ disconnect_callback
    \/ \E f1 \in 0..1 : \E f2 \in 0..1 : set_alarm_get_response(f1, f2)

SpecSetAlarm == Init /\ [][NextSetAlarm]_vars

\* the query of get_alarm_tup and the command of set_alarm_dict, as payloads
AlarmQuery == <<33>>

IsAlarmCmd(p) == Len(p) = 9 /\ p[1] = 17

\* the event set_alarm takes off the queue completes the response to its first
\* get_alarm_tup, and the 24 values are unpacked from it
FirstQueryReturns ==
    /\ pc = "waiting"
    /\ sent = <<AlarmQuery>>
    /\ Completes
    /\ Handled.err = ""
    /\ Unpacked(CompletedPayload).kind = "return"

\* the alarm of the call as set_alarm_dict would take it, for the alarms the
\* completed response holds
ChosenAlarm ==
    set_alarm_updates(get_alarm_tup(Unpacked(CompletedPayload).vals)[py_index(3, call.args[1])],
                      call.args[1], call.args[2], call.args[3], call.args[4], call.args[5])

Validates ==
    /\ py_index(3, call.args[1]) # 0
    /\ _make_alarm_repeat_days_int(ChosenAlarm.repeat_days_tup).err = ""
    /\ _assert_alarm_dict(ChosenAlarm) = ""

\* C31: set_alarm sends a query 0x21, then, at the step at which that query
\* returns the alarms, one command 0x11 for the chosen alarm, then a second
\* query 0x21, and nothing else; the command is written only at the return of
\* the first query and only for an alarm that passes the validation, so that a
\* first query that fails, an index past the alarms, or an alarm that is not
\* valid leaves the client without a 0x11 command written
C31_SetAlarmOrder ==
    /\ [](call.op = "set_alarm" =>
             /\ Len(sent) <= 3
             /\ Len(sent) >= 1 => sent[1] = AlarmQuery
             /\ Len(sent) >= 2 => IsAlarmCmd(sent[2]) /\ sent[2][2] = call.args[1]
             /\ Len(sent) >= 3 => sent[3] = AlarmQuery
             /\ pc = "waiting" => Len(sent) \in {1, 3}
             /\ outcome.kind = "return" => Len(sent) = 3)
    /\ [][(call.op = "set_alarm" /\ sent' # sent) =>
             /\ FirstQueryReturns
             /\ Validates
             /\ SubSeq(sent', 1, 1) = sent]_vars

C31_Witness ==
    /\ call = Call("set_alarm", AlarmArgs[2])
    /\ pc = "idle"
    /\ outcome = Returned("set_alarm")
    /\ sent = <<AlarmQuery, <<17, 1, 1, 2, 6, 0, 0, 0, 12>>, AlarmQuery>>

====
